---- MODULE Spec2Model ----
(***************************************************************************)
(* Model of the data-access component of the NYC parking backend           *)
(* (src/src/data/data_loader.py, class DataLoader) and of the two callers  *)
(* that drive it (src/src/app.py, src/src/routes/parking_routes.py).       *)
(*                                                                         *)
(* Coordinates are integers in units of 1e-5 degree, so that the NYC       *)
(* bounding box of the source (40.4774 .. 40.9176, -74.2591 .. -73.7004)   *)
(* is exact.  Distances are integers in millimetres; the value attached to *)
(* a result (round(distance, 1)) is an integer number of decimetres.       *)
(***************************************************************************)
EXTENDS Integers, Sequences, FiniteSets, TLC

VARIABLES
    parking_signs_df,   \* DataLoader.parking_signs_df: the signs table
    meter_zones_df,     \* DataLoader.meter_zones_df: the meter-zone table
    app_phase,          \* create_app: "load_signs", "load_meters", then "serving"
    l_pc,               \* position of the thread inside load_parking_signs
    l_caller,           \* who called load_parking_signs: "startup" or "route"
    l_path,             \* the path the running load has taken
    l_prev,             \* the signs table when the running load began
    l_data,             \* the response the running load turned into a table
    l_requests,         \* GET requests the running load has issued
    r_seen,             \* <<table>> a request thread read while a load ran
    q_pc,               \* position of the sign lookup: "ready" or "done"
    q_args,             \* arguments of the last find_nearby_parking_signs call
    q_result,           \* list returned by the last call
    k_pc,               \* position of a call of another read operation or route
    k_call,             \* the operation called and its arguments
    k_result,           \* what the call returned
    feed,               \* the records the violations endpoint serves
    db,                 \* committed rows of the violations table, in rowid order
    db_lock,            \* write lock of the database file: "free", "held", "leaked", "peer"
    lastw,              \* per summons number, <<row>> of its last committed write
    i_pc,               \* position of the thread inside load_real_violations
    i_runs,             \* ingestion runs started so far
    i_prev_ret,         \* what the previous run returned
    i_fetch,            \* how the fetch of the running ingestion ended
    i_data,             \* violations_data
    i_idx,              \* index in violations_data of the next record
    i_view,             \* the table as the connection of the run sees it
    i_lastw,            \* lastw as the open transaction of the run would leave it
    i_db_start,         \* the committed table when the run began
    i_raised,           \* indices whose processing raised
    i_executed,         \* indices whose INSERT OR REPLACE succeeded
    i_committed,        \* indices whose insert a commit has made durable
    i_hits,             \* indices for which the geocoder returned a point
    processed_count,    \* processed_count of the run
    geocoded_count,     \* geocoded_count of the run
    i_log,              \* the counts the run has written to the log
    i_ret,              \* what load_real_violations returned
    p_pc,               \* position of a second, concurrent call of load_real_violations
    p_idx,              \* index in its violations_data of the next record
    p_view,             \* the table as its connection sees it
    p_raised,           \* its indices whose processing raised
    p_executed,         \* its indices whose INSERT OR REPLACE succeeded
    p_committed         \* its indices whose insert a commit has made durable

store_vars == <<parking_signs_df, meter_zones_df>>
load_vars  == <<app_phase, l_pc, l_caller, l_path, l_prev, l_data, l_requests,
                r_seen>>
query_vars == <<q_pc, q_args, q_result, k_pc, k_call, k_result>>
db_vars    == <<feed, db, db_lock, lastw>>
run_vars   == <<i_pc, i_runs, i_prev_ret, i_fetch, i_data, i_idx, i_view, i_lastw, i_db_start,
                i_raised, i_executed, i_committed, i_hits, processed_count,
                geocoded_count, i_log, i_ret>>

peer_vars  == <<p_pc, p_idx, p_view, p_raised, p_executed, p_committed>>

vars == <<store_vars, load_vars, query_vars, db_vars, run_vars, peer_vars>>

----------------------------------------------------------------------------
(* Bounds of the model *)

MaxRows == 3            \* rows of a table drawn for a lookup
MaxSignRows == 2        \* records in a response of the signs or meter endpoint
MaxFetch == 3           \* records the violations endpoint serves
MaxRuns == 2            \* ingestion runs in one behaviour
batch_size == 2         \* Config.GEOCODING_BATCH_SIZE (100 in config.py), scaled down

----------------------------------------------------------------------------
(* Cell values of a table.  A JSON field arrives as a string; pd.to_numeric *)
(* (errors='coerce') turns a numeric string into a number and anything     *)
(* else into NaN.                                                          *)

Num(n) == [k |-> "num", v |-> n]    \* a float
Str(n) == [k |-> "str", v |-> n]    \* the string that spells the number n
Junk   == [k |-> "junk", v |-> 0]   \* a string that spells no number
NaN    == [k |-> "nan", v |-> 0]    \* missing value (None / NaN)

IsNum(c) == c.k = "num"
IsNull(c) == c.k = "nan"

\* pd.to_numeric(column, errors='coerce'), cell by cell
to_numeric(c) ==
    IF c.k = "num" THEN c
    ELSE IF c.k = "str" THEN Num(c.v)
    ELSE NaN

----------------------------------------------------------------------------
(* The NYC bounding box (nyc_bounds), in 1e-5 degree *)

LatMin == 4047740
LatMax == 4091760
LonMin == -7425910
LonMax == -7370040

InBounds(lat, lon) ==
    /\ lat >= LatMin /\ lat <= LatMax
    /\ lon >= LonMin /\ lon <= LonMax

----------------------------------------------------------------------------
(* Tables.  A DataFrame is its set of columns and its rows in order; the    *)
(* synthetic table of _create_sample_parking_signs is kept by its seed and *)
(* expanded by Rows.  A row holds one cell for each coordinate column.     *)

NoneDf == [kind |-> "None", cols |-> {}, rows |-> <<>>, seed |-> 0]

Frame(cols, rows) == [kind |-> "frame", cols |-> cols, rows |-> rows, seed |-> 0]

XYCols == {"sign_x_coord", "sign_y_coord"}
LLCols == {"latitude", "longitude"}

Row(id, x, y, lat, lon) == [id |-> id, x |-> x, y |-> y, lat |-> lat, lon |-> lon]

SampleCount == 1000

\* row i (0-based) of the synthetic table: random.uniform inside nyc_bounds
SampleRow(seed, i) ==
    Row(i, NaN, NaN,
        Num(LatMin + (((seed + 1) * (i * 37 + 11)) % (LatMax - LatMin + 1))),
        Num(LonMin + (((seed + 1) * (i * 53 + 7)) % (LonMax - LonMin + 1))))

SampleDf(seed) == [kind |-> "sample", cols |-> LLCols, rows |-> <<>>, seed |-> seed]

Rows(df) ==
    IF df.kind = "sample"
    THEN [i \in 1..SampleCount |-> SampleRow(df.seed, i - 1)]
    ELSE df.rows

\* len(df)
DfLen(df) == IF df.kind = "sample" THEN SampleCount ELSE Len(df.rows)

\* df is None or df.empty
NoneOrEmpty(df) == df.kind = "None" \/ DfLen(df) = 0

RECURSIVE SeqsUpTo(_, _)
\* the sequences over S of length <= n
SeqsUpTo(S, n) ==
    IF n = 0 THEN { <<>> }
    ELSE LET shorter == SeqsUpTo(S, n - 1)
         IN  shorter \cup { Append(t, e) : t \in shorter, e \in S }

\* no lookup has been made
NoArgs == [lat |-> 0, lon |-> 0, radius |-> <<>>]

\* no other read operation has been called
NoCall == [op |-> "none"]

QueryIdle ==
    /\ q_pc = "ready" /\ q_args = NoArgs /\ q_result = <<>>
    /\ k_pc = "ready" /\ k_call = NoCall /\ k_result = <<>>

----------------------------------------------------------------------------
(* The violations table (_init_database).  A row is kept by its key        *)
(* summons_number (TEXT UNIQUE), one payload column, and its coordinates:  *)
(* <<>> for NULL latitude and longitude, <<lat, lon>> otherwise.           *)

\* violation.get('summons_number') of a record without the key: None, stored
\* as NULL
NullSn == 0

SummonsNumbers == {1, 2}

ViolationRow(sn, plate, coords) ==
    [summons_number |-> sn, plate_id |-> plate, coords |-> coords]

\* the rows of the table that carry the key sn
RowsOf(table, sn) ==
    LET has(r) == r.summons_number = sn
    IN  SelectSeq(table, has)

\* mutant of Upsert: INSERT OR IGNORE, the row that is there stays
UpsertIgnore(table, row) ==
    IF row.summons_number # NullSn /\ RowsOf(table, row.summons_number) # <<>>
    THEN table
    ELSE Append(table, row)

\* INSERT OR REPLACE under the UNIQUE constraint of summons_number: the row
\* that holds the same non-NULL key is deleted and the new row is added with
\* a fresh rowid.  NULL keys never conflict.
Upsert(table, row) ==
    LET other(r) == r.summons_number = NullSn
                    \/ r.summons_number # row.summons_number
    IN  Append(SelectSeq(table, other), row)

\* no summons number has been written
NoWrites == [sn \in SummonsNumbers |-> <<>>]

\* no ingestion is running
RunIdle ==
    /\ i_pc = "idle" /\ i_fetch = "none" /\ i_data = <<>> /\ i_idx = 0
    /\ i_view = <<>> /\ i_lastw = NoWrites /\ i_db_start = <<>>
    /\ i_raised = {} /\ i_executed = {} /\ i_committed = {} /\ i_hits = {}
    /\ processed_count = 0 /\ geocoded_count = 0
    /\ i_log = <<>> /\ i_ret = <<>>
    /\ p_pc = "idle" /\ p_idx = 0 /\ p_view = <<>>
    /\ p_raised = {} /\ p_executed = {} /\ p_committed = {}

\* the table as _init_database creates it, and no ingestion so far
DbIdle ==
    /\ feed = <<>> /\ db = <<>> /\ db_lock = "free" /\ lastw = NoWrites
    /\ i_runs = 0 /\ i_prev_ret = <<>>
    /\ RunIdle

----------------------------------------------------------------------------
(* geopy.distance.geodesic on the WGS-84 ellipsoid, by the ellipsoid's      *)
(* metric at NYC latitudes: one unit (1e-5 degree) of latitude is 1110 mm  *)
(* and one unit of longitude is 848 mm at the southern edge of the box and *)
(* 842 mm at the northern edge.                                            *)

LatMm == 1110
LonMmSouth == 848
LonMmNorth == 842

Abs(n) == IF n < 0 THEN -n ELSE n

LonMm(lat) ==
    LonMmSouth - (((lat - LatMin) * (LonMmSouth - LonMmNorth)) \div (LatMax - LatMin))

RECURSIVE SqrtBetween(_, _, _)
\* the largest r in lo..hi with r * r <= n
SqrtBetween(n, lo, hi) ==
    IF lo >= hi THEN lo
    ELSE LET mid == (lo + hi + 1) \div 2
         IN  IF mid * mid <= n THEN SqrtBetween(n, mid, hi)
             ELSE SqrtBetween(n, lo, mid - 1)

ISqrt(n) == SqrtBetween(n, 0, 40000)

RECURSIVE ScaleFor(_, _)
\* the power of ten that brings m within 30000 (keeps the squares in range)
ScaleFor(m, s) == IF m \div s <= 30000 THEN s ELSE ScaleFor(m, s * 10)

\* geodesic((lat1, lon1), (lat2, lon2)).meters, in millimetres (to the
\* millimetre up to 30 m, to four significant digits beyond)
geodesic(lat1, lon1, lat2, lon2) ==
    LET dy == Abs(lat1 - lat2) * LatMm
        dx == Abs(lon1 - lon2) * LonMm((lat1 + lat2) \div 2)
        s  == ScaleFor(IF dy > dx THEN dy ELSE dx, 1)
    IN  ISqrt((dy \div s) * (dy \div s) + (dx \div s) * (dx \div s)) * s

\* round(distance, 1): millimetres to the nearest decimetre
round1(mm) == (mm + 50) \div 100

----------------------------------------------------------------------------
(* find_nearby_parking_signs *)

SEARCH_RADIUS_METERS == 100

\* mutant of WithinBuffer: the buffer without its factor 1.5
WithinBufferNoSlack(cell, v, radius_meters) ==
    /\ IsNum(cell)
    /\ Abs(cell.v - v) * 111 <= radius_meters * 100

\* abs(cell - v) <= buffer_deg with buffer_deg = (radius_meters / 111000) * 1.5
\* for a numeric cell; a comparison with NaN is False.  With d the difference
\* in 1e-5 degree this is d / 100000 <= radius_meters * 3 / (111000 * 2),
\* that is d * 111 * 2 <= radius_meters * 3 * 100.
WithinBuffer(cell, v, radius_meters) ==
    /\ IsNum(cell)
    /\ Abs(cell.v - v) * 111 * 2 <= radius_meters * 3 * 100

\* the boolean mask of lines 257-260
Prefilter(row, lat, lon, radius_meters) ==
    /\ WithinBuffer(row.lat, lat, radius_meters)
    /\ WithinBuffer(row.lon, lon, radius_meters)

\* mutant of WithinRadius: the exact check against the buffered radius
WithinRadiusBuffered(distance, radius_meters) == distance * 2 <= radius_meters * 3 * 1000

\* distance <= radius_meters (line 273)
WithinRadius(distance, radius_meters) == distance <= radius_meters * 1000

\* the dict appended at lines 274-276
SignData(row, distance) ==
    [id |-> row.id, lat |-> row.lat.v, lon |-> row.lon.v,
     distance_meters |-> round1(distance)]

RECURSIVE InsertSorted(_, _)
\* e put behind every element whose key is <= its own (a stable insertion)
InsertSorted(s, e) ==
    IF s = <<>> THEN <<e>>
    ELSE IF Head(s).distance_meters <= e.distance_meters
         THEN <<Head(s)>> \o InsertSorted(Tail(s), e)
         ELSE <<e>> \o s

RECURSIVE SortByDistance(_)
\* list.sort(key=lambda x: x['distance_meters']): stable, ascending
SortByDistance(s) ==
    IF s = <<>> THEN <<>>
    ELSE InsertSorted(SortByDistance(SubSeq(s, 1, Len(s) - 1)), s[Len(s)])

RECURSIVE CollectNearby(_, _, _, _)
\* the loop of lines 269-276 over the prefiltered rows
CollectNearby(rows, lat, lon, radius_meters) ==
    IF rows = <<>> THEN <<>>
    ELSE LET row == Head(rows)
             distance == geodesic(lat, lon, row.lat.v, row.lon.v)
             rest == CollectNearby(Tail(rows), lat, lon, radius_meters)
         IN  IF WithinRadius(distance, radius_meters)
             THEN <<SignData(row, distance)>> \o rest
             ELSE rest

\* a cell on which float arithmetic raises TypeError (a str in an object column)
Raises(cell) == cell.k = "str" \/ cell.k = "junk"

find_nearby_parking_signs(df, lat, lon, radius) ==
    IF NoneOrEmpty(df) THEN <<>>
    ELSE IF ~(LLCols \subseteq df.cols) THEN <<>>             \* KeyError, line 283
    ELSE IF \E i \in 1..DfLen(df) : Raises(Rows(df)[i].lat) \/ Raises(Rows(df)[i].lon)
         THEN <<>>                                            \* TypeError, line 283
    ELSE LET radius_meters == IF radius = <<>> THEN SEARCH_RADIUS_METERS ELSE radius[1]
             keep(row) == Prefilter(row, lat, lon, radius_meters)
             nearby_df == SelectSeq(Rows(df), keep)
         IN  SortByDistance(CollectNearby(nearby_df, lat, lon, radius_meters))

----------------------------------------------------------------------------
(* Coordinate conversion (state plane, feet -> latitude/longitude)         *)

PyprojOutcomes == {"precise", "approximate"}

\* pyproj Transformer EPSG:2263 -> EPSG:4326 (lines 739-748): the projection
\* has its central meridian 74 W at x = 984250 ft and its origin 40 10' N at
\* y = 0; near NYC one degree is 364300 ft of northing and 277200 ft of easting.
PreciseLat(y) == 4016667 + ((y * 1000) \div 3643)
PreciseLon(x) == -7400000 + (((x - 984250) * 1000) \div 2772)

\* _approximate_state_plane_conversion (lines 770-786)
x_offset == 913200
y_offset == 120000
x_scale == 364000
y_scale == 274000
base_lat == 4071280
base_lon == -7400600

ApproxLon(x) == base_lon + (((x - x_offset) * 100) \div (x_scale \div 1000))
ApproxLat(y) == base_lat + (((y - y_offset) * 100) \div (y_scale \div 1000))

\* valid_coords / valid_mask: both state-plane cells are present
ValidXY(row) == ~IsNull(row.x) /\ ~IsNull(row.y)

ConvertRow(row, how) ==
    IF ValidXY(row)
    THEN [row EXCEPT !.lat = Num(IF how = "precise" THEN PreciseLat(row.y.v)
                                                    ELSE ApproxLat(row.y.v)),
                     !.lon = Num(IF how = "precise" THEN PreciseLon(row.x.v)
                                                    ELSE ApproxLon(row.x.v))]
    ELSE row                                  \* the cells stay NaN

\* _convert_state_plane_to_latlon: "precise" when pyproj imports and its
\* transform succeeds, "approximate" otherwise.  On both paths a table with
\* no valid pair comes back as it went in, without latitude/longitude columns.
convert_state_plane_to_latlon(df, how) ==
    IF \E i \in 1..Len(df.rows) : ValidXY(df.rows[i])
    THEN Frame(df.cols \cup LLCols,
               [i \in 1..Len(df.rows) |-> ConvertRow(df.rows[i], how)])
    ELSE df

----------------------------------------------------------------------------
(* load_parking_signs, statement by statement: every assignment to         *)
(* self.parking_signs_df, and every assignment to one of its columns, is a *)
(* step that request threads can interleave with.                          *)

\* records of the signs endpoint: state-plane pairs (the reference point, a
\* point near the offsets of the approximation, a point outside the box,
\* a non-numeric cell, missing cells)
XYRecords ==
    << Row(0, Str(982587), Str(198973), NaN, NaN),
       Row(0, Str(913200), Str(120000), NaN, NaN),
       Row(0, Str(0), Str(0), NaN, NaN),
       Row(0, Junk, Str(198973), NaN, NaN),
       Row(0, NaN, NaN, NaN, NaN) >>

\* records that carry latitude/longitude (inside the box, outside it,
\* a non-numeric cell, missing cells)
LLRecords ==
    << Row(0, NaN, NaN, Str(4075890), Str(-7398510)),
       Row(0, NaN, NaN, Str(4150000), Str(-7300000)),
       Row(0, NaN, NaN, Junk, Str(-7398510)),
       Row(0, NaN, NaN, NaN, NaN) >>

\* records of the meter endpoint when it sends no long column
LatOnlyRecords ==
    << Row(0, NaN, NaN, Str(4150000), NaN),
       Row(0, NaN, NaN, Junk, NaN) >>

Numbered(recs) == [i \in 1..Len(recs) |-> [recs[i] EXCEPT !.id = i]]

RECURSIVE SubLists(_, _)
\* the lists of at most n records picked from list, in its order
SubLists(list, n) ==
    IF list = <<>> \/ n = 0 THEN { <<>> }
    ELSE SubLists(Tail(list), n)
         \cup { <<Head(list)>> \o t : t \in SubLists(Tail(list), n - 1) }

\* the bodies of a response: one to n records
Bodies(list, n) == SubLists(list, n) \ { <<>> }

\* response.json() turned into a DataFrame (line 119)
SignResponses ==
    { Frame({}, <<>>) }
    \cup { Frame(XYCols, Numbered(r)) : r \in Bodies(XYRecords, MaxSignRows) }
    \cup { Frame(LLCols, Numbered(r)) : r \in Bodies(LLRecords, MaxSignRows) }
    \cup { Frame({"latitude"}, Numbered(<<Row(0, NaN, NaN, Str(4075890), NaN)>>)) }

\* outcome of requests.get: it raises, or answers with a status.  "300" is a
\* 3xx answer that requests does not follow (no Location header, or a status
\* outside 301/302/303/307/308) and whose body is JSON
RequestOutcomes == {"raise", "200", "300", "403", "500"}

Seeds == {0, 1}

NotSeen == <<>>

LoadIdle ==
    /\ l_pc = "idle" /\ l_caller = "none" /\ l_path = "none"
    /\ l_prev = NoneDf /\ l_data = NoneDf /\ l_requests = 0 /\ r_seen = NotSeen

\* the frame with column c coerced by pd.to_numeric
CoerceColumn(df, c) ==
    Frame(df.cols,
          [i \in 1..Len(df.rows) |->
              IF c = "sign_x_coord" THEN [df.rows[i] EXCEPT !.x = to_numeric(@)]
              ELSE IF c = "sign_y_coord" THEN [df.rows[i] EXCEPT !.y = to_numeric(@)]
              ELSE IF c = "latitude" THEN [df.rows[i] EXCEPT !.lat = to_numeric(@)]
              ELSE [df.rows[i] EXCEPT !.lon = to_numeric(@)]])

\* df.dropna(subset=[the two coordinate columns])
dropna(df) ==
    LET keep(row) == ~IsNull(row.lat) /\ ~IsNull(row.lon)
    IN  Frame(df.cols, SelectSeq(df.rows, keep))

\* the nyc_bounds mask of lines 161-166 and 222-227
bounds_filter(df) ==
    LET keep(row) == InBounds(row.lat.v, row.lon.v)
    IN  Frame(df.cols, SelectSeq(df.rows, keep))

\* app.py line 36 (caller "startup") or parking_routes.py line 340 ("route")
LoadStart(caller) ==
    /\ l_pc = "idle"
    /\ \/ caller = "startup" /\ app_phase = "load_signs"
       \/ caller = "route" /\ app_phase = "serving"
    /\ l_pc' = "request"
    /\ l_caller' = caller
    /\ l_path' = "none"
    /\ l_prev' = parking_signs_df
    /\ l_data' = NoneDf
    /\ l_requests' = 0
    /\ r_seen' = NotSeen
    /\ UNCHANGED <<store_vars, app_phase, query_vars, db_vars, run_vars, peer_vars>>

\* lines 105-115: the first GET; 403 leads to the retry, any other failure
\* to the except block.  raise_for_status (line 115) raises for the statuses
\* 400..599 only,
\* so a 3xx answer goes on to response.json() like a 200
FirstRequest(outcome) ==
    /\ l_pc = "request"
    /\ l_requests' = l_requests + 1
    /\ l_pc' = CASE outcome \in {"200", "300"} -> "parse"
                 [] outcome = "403" -> "retry"
                 [] OTHER -> "sample"
    /\ l_path' = CASE outcome = "raise" -> "raise"
                   [] outcome = "500" -> "status"
                   [] outcome = "300" -> "redirect"
                   [] OTHER -> l_path
    /\ UNCHANGED <<store_vars, app_phase, l_caller, l_prev, l_data, r_seen, query_vars, db_vars, run_vars, peer_vars>>

\* lines 108-115: the second GET, with limit 1000, then raise_for_status
RetryRequest(outcome) ==
    /\ l_pc = "retry"
    /\ l_requests' = l_requests + 1
    /\ l_pc' = IF outcome \in {"200", "300"} THEN "parse" ELSE "sample"
    /\ l_path' = CASE outcome = "200" -> l_path
                   [] outcome = "300" -> "redirect"
                   [] outcome = "raise" -> "raise"
                   [] OTHER -> "status"
    /\ UNCHANGED <<store_vars, app_phase, l_caller, l_prev, l_data, r_seen, query_vars, db_vars, run_vars, peer_vars>>

\* a load whose line 119 appended the response to the fetched rows of the
\* table it found (pd.concat) instead of assigning it
ParseMerging(data) ==
    /\ l_pc = "parse"
    /\ parking_signs_df' = Frame(data.cols, parking_signs_df.rows \o data.rows)
    /\ l_data' = data
    /\ l_path' = CASE Len(data.rows) = 0 -> "empty"
                   [] XYCols \subseteq data.cols -> "xy"
                   [] LLCols \subseteq data.cols -> "latlon"
                   [] OTHER -> "nocols"
    /\ l_pc' = CASE Len(data.rows) = 0 -> "sample"
                 [] XYCols \subseteq data.cols -> "coerce_x"
                 [] LLCols \subseteq data.cols -> "coerce_lat"
                 [] OTHER -> "sample"
    /\ UNCHANGED <<meter_zones_df, app_phase, l_caller, l_prev, l_requests, r_seen,
                   query_vars, db_vars, run_vars, peer_vars>>

\* lines 117-147: the raw response becomes the table, then the branch on its
\* columns is taken
Parse(data) ==
    /\ l_pc = "parse"
    /\ parking_signs_df' = data
    /\ l_data' = data
    /\ l_path' = CASE Len(data.rows) = 0 -> "empty"
                   [] XYCols \subseteq data.cols -> "xy"
                   [] LLCols \subseteq data.cols -> "latlon"
                   [] OTHER -> "nocols"
    /\ l_pc' = CASE Len(data.rows) = 0 -> "sample"
                 [] XYCols \subseteq data.cols -> "coerce_x"
                 [] LLCols \subseteq data.cols -> "coerce_lat"
                 [] OTHER -> "sample"
    /\ UNCHANGED <<meter_zones_df, app_phase, l_caller, l_prev, l_requests, r_seen,
                   query_vars, db_vars, run_vars, peer_vars>>

\* lines 126-131 and 138-143: one column assigned in place
Coerce ==
    /\ l_pc \in {"coerce_x", "coerce_y", "coerce_lat", "coerce_lon"}
    /\ parking_signs_df' =
          CoerceColumn(parking_signs_df,
                       CASE l_pc = "coerce_x" -> "sign_x_coord"
                         [] l_pc = "coerce_y" -> "sign_y_coord"
                         [] l_pc = "coerce_lat" -> "latitude"
                         [] OTHER -> "longitude")
    /\ l_pc' = CASE l_pc = "coerce_x" -> "coerce_y"
                 [] l_pc = "coerce_y" -> "convert"
                 [] l_pc = "coerce_lat" -> "coerce_lon"
                 [] OTHER -> "dropna"
    /\ UNCHANGED <<meter_zones_df, app_phase, l_caller, l_path, l_prev, l_data, l_requests,
                   r_seen, query_vars, db_vars, run_vars, peer_vars>>

\* line 134
Convert(how) ==
    /\ l_pc = "convert"
    /\ parking_signs_df' = convert_state_plane_to_latlon(parking_signs_df, how)
    /\ l_pc' = "dropna"
    /\ UNCHANGED <<meter_zones_df, app_phase, l_caller, l_path, l_prev, l_data, l_requests,
                   r_seen, query_vars, db_vars, run_vars, peer_vars>>

\* lines 150-153: only when both coordinate columns exist
DropNa ==
    /\ l_pc = "dropna"
    /\ IF LLCols \subseteq parking_signs_df.cols
       THEN parking_signs_df' = dropna(parking_signs_df) /\ l_pc' = "filter"
       ELSE parking_signs_df' = parking_signs_df /\ l_pc' = "return"
    /\ UNCHANGED <<meter_zones_df, app_phase, l_caller, l_path, l_prev, l_data, l_requests,
                   r_seen, query_vars, db_vars, run_vars, peer_vars>>

\* lines 156-166
BoundsFilter ==
    /\ l_pc = "filter"
    /\ parking_signs_df' = bounds_filter(parking_signs_df)
    /\ l_pc' = "return"
    /\ UNCHANGED <<meter_zones_df, app_phase, l_caller, l_path, l_prev, l_data, l_requests,
                   r_seen, query_vars, db_vars, run_vars, peer_vars>>

\* lines 146, 172, 182: _create_sample_parking_signs
CreateSample(seed) ==
    /\ l_pc = "sample"
    /\ parking_signs_df' = SampleDf(seed)
    /\ l_pc' = "return"
    /\ UNCHANGED <<meter_zones_df, app_phase, l_caller, l_path, l_prev, l_data, l_requests,
                   r_seen, query_vars, db_vars, run_vars, peer_vars>>

\* load_parking_signs returns True (lines 147, 169, 173, 183)
LoadReturn ==
    /\ l_pc = "return"
    /\ IF l_caller = "startup"
       THEN l_pc' = "idle" /\ app_phase' = "load_meters"
       ELSE l_pc' = "route_check" /\ app_phase' = app_phase
    /\ l_caller' = "none" /\ l_path' = "none" /\ l_prev' = NoneDf
    /\ l_data' = NoneDf
    /\ l_requests' = 0 /\ r_seen' = NotSeen
    /\ UNCHANGED <<store_vars, query_vars, db_vars, run_vars, peer_vars>>

\* parking_routes.py lines 345-357: the route creates the synthetic table
\* when the load left none
RouteForceSample(seed) ==
    /\ l_pc = "route_check"
    /\ parking_signs_df' = IF NoneOrEmpty(parking_signs_df) THEN SampleDf(seed)
                           ELSE parking_signs_df
    /\ l_pc' = "idle"
    /\ UNCHANGED <<meter_zones_df, app_phase, l_caller, l_path, l_prev, l_data, l_requests,
                   r_seen, query_vars, db_vars, run_vars, peer_vars>>

\* a request thread (find_nearby_parking_signs line 246, get_data_status
\* line 886) reads self.parking_signs_df while a reload is running
ReadDuringLoad ==
    /\ app_phase = "serving"
    /\ l_pc \notin {"idle", "route_check"}
    /\ r_seen' = <<parking_signs_df>>
    /\ UNCHANGED <<store_vars, app_phase, l_pc, l_caller, l_path, l_prev, l_data, l_requests,
                   query_vars, db_vars, run_vars, peer_vars>>

----------------------------------------------------------------------------
(* load_meter_zones (called once, by create_app)                           *)

MeterCols == {"lat", "long"}

\* response.json() of the meter endpoint as a DataFrame (line 196); the cells
\* of the columns lat and long are the fields lat and lon of a row
MeterResponses ==
    { Frame({}, <<>>) }
    \cup { Frame(MeterCols, Numbered(r)) : r \in Bodies(LLRecords, MaxSignRows) }
    \cup { Frame({"lat"}, Numbered(r)) : r \in Bodies(LatOnlyRecords, MaxSignRows) }

CoerceMeter(df) ==
    Frame(df.cols,
          [i \in 1..Len(df.rows) |->
              [df.rows[i] EXCEPT
                  !.lat = IF "lat" \in df.cols THEN to_numeric(@) ELSE @,
                  !.lon = IF "long" \in df.cols THEN to_numeric(@) ELSE @]])

\* lines 196-233 for a response that parsed
load_meter_zones(data) ==
    IF Len(data.rows) = 0 THEN data
    ELSE IF MeterCols \subseteq data.cols
         THEN bounds_filter(dropna(CoerceMeter(data)))
         ELSE CoerceMeter(data)

\* app.py line 38; a request that raises or a non-2xx status leaves the
\* attribute as it is (lines 192-193, 235-237)
LoadMeterZones(outcome, data) ==
    /\ app_phase = "load_meters"
    /\ meter_zones_df' = IF outcome = "200" THEN load_meter_zones(data)
                         ELSE meter_zones_df
    /\ app_phase' = "serving"
    /\ UNCHANGED <<parking_signs_df, l_pc, l_caller, l_path, l_prev, l_data, l_requests,
                   r_seen, query_vars, db_vars, run_vars, peer_vars>>

InitSigns ==
    /\ parking_signs_df = NoneDf
    /\ meter_zones_df = NoneDf
    /\ app_phase = "load_signs"
    /\ LoadIdle
    /\ QueryIdle
    /\ DbIdle

NextSigns ==
    \/ \E c \in {"startup", "route"} : LoadStart(c)
    \/ \E o \in RequestOutcomes : FirstRequest(o)
    \/ \E o \in RequestOutcomes : RetryRequest(o)
    \/ \E d \in SignResponses : Parse(d)
    \/ Coerce
    \/ \E how \in PyprojOutcomes : Convert(how)
    \/ DropNa
    \/ BoundsFilter
    \/ \E seed \in Seeds : CreateSample(seed)
    \/ LoadReturn
    \/ \E seed \in Seeds : RouteForceSample(seed)
    \/ ReadDuringLoad
    \/ \E o \in {"raise", "200", "500"}, d \in MeterResponses : LoadMeterZones(o, d)

SpecSigns == InitSigns /\ [][NextSigns]_vars

----------------------------------------------------------------------------
(* Properties of the loads *)

\* every row of the table has numeric coordinates inside the NYC box
AllInBox(df, cols) ==
    DfLen(df) > 0 =>
        /\ cols \subseteq df.cols
        /\ \A i \in 1..DfLen(df) :
              LET row == Rows(df)[i]
              IN  IsNum(row.lat) /\ IsNum(row.lon) /\ InBounds(row.lat.v, row.lon.v)

\* C8 as stated: a request thread that read the signs table while
\* load_parking_signs ran saw the table as it was before the load or as the
\* load leaves it, never a table in between.
C8_ReaderSeesWholeSnapshot ==
    (l_pc = "return" /\ r_seen # NotSeen) =>
        (r_seen[1] = l_prev \/ r_seen[1] = parking_signs_df)

\* C9 as stated: when load_parking_signs returns the signs table is not
\* empty, and when the request raised it is the 1000 synthetic rows.
C9_NeverLeftEmpty ==
    l_pc = "return" =>
        /\ ~NoneOrEmpty(parking_signs_df)
        /\ l_path = "raise" =>
              (parking_signs_df.kind = "sample" /\ DfLen(parking_signs_df) = 1000)

\* C10 as stated: after a completed load every row of the signs table and of
\* the meter-zone table has numeric coordinates inside the NYC box.
C10_StoresHoldOnlyRowsInBox ==
    /\ l_pc = "return" => AllInBox(parking_signs_df, LLCols)
    /\ app_phase = "serving" => AllInBox(meter_zones_df, MeterCols)

----------------------------------------------------------------------------
(* Lookups against a loaded signs table (specification SpecQuery).  The    *)
(* table is any table a completed load can leave: rows with numeric        *)
(* coordinates inside the box, here in a cluster around a base point, or a *)
(* table that has no latitude/longitude columns.                           *)

\* base points of a cluster: Times Square, and the northern edge of the box
Bases == { <<4075890, -7398510>>, <<4091746, -7398510>> }

\* offsets of the rows from the base, in 1e-5 degree
Offsets == { <<0, 0>>, <<4, 0>>, <<1, 5>>, <<9, 0>>, <<0, 11>>, <<0, 12>>, <<14, 0>> }

\* offsets of the query point from the base
QueryOffsets == { <<0, 0>>, <<0, -2>> }

\* radius argument: absent, or metres
Radii == { <<>>, <<10>>, <<5>> }

ClusterFrame(base, offs) ==
    Frame(LLCols,
          [i \in 1..Len(offs) |->
              Row(i, NaN, NaN, Num(base[1] + offs[i][1]), Num(base[2] + offs[i][2]))])

LoadedTables ==
    { ClusterFrame(b, offs) : b \in Bases, offs \in SeqsUpTo(Offsets, MaxRows) }
    \cup { Frame(XYCols, <<Row(1, NaN, NaN, NaN, NaN)>>) }

FindNearbySigns(lat, lon, radius) ==
    /\ q_pc = "ready"
    /\ InBounds(lat, lon)                   \* validate_nyc_coordinates in the route
    /\ q_args' = [lat |-> lat, lon |-> lon, radius |-> radius]
    /\ q_result' = find_nearby_parking_signs(parking_signs_df, lat, lon, radius)
    /\ q_pc' = "done"
    /\ UNCHANGED <<store_vars, load_vars, db_vars, run_vars, peer_vars, k_pc, k_call, k_result>>

InitQuery ==
    /\ parking_signs_df \in LoadedTables
    /\ meter_zones_df = NoneDf
    /\ app_phase = "serving"
    /\ LoadIdle
    /\ QueryIdle
    /\ DbIdle

NextQuery ==
    \E b \in Bases, o \in QueryOffsets, r \in Radii :
        FindNearbySigns(b[1] + o[1], b[2] + o[2], r)

SpecQuery == InitQuery /\ [][NextQuery]_vars

----------------------------------------------------------------------------
(* Properties of the sign lookup *)

QRadiusMm ==
    (IF q_args.radius = <<>> THEN SEARCH_RADIUS_METERS ELSE q_args.radius[1]) * 1000

\* exact distance of a result row to the query point
QDist(r) == geodesic(q_args.lat, q_args.lon, r.lat, r.lon)

\* C1 as stated: every returned row is within the radius and the list is in
\* non-decreasing order of the (exact geodesic) distance.
C1_AsStated ==
    q_pc = "done" =>
        /\ \A i \in 1..Len(q_result) : QDist(q_result[i]) <= QRadiusMm
        /\ \A i, j \in 1..Len(q_result) :
              i < j => QDist(q_result[i]) <= QDist(q_result[j])

\* C1 amended: every returned row is within the radius; the list is in
\* non-decreasing order of the reported distance_meters (the distance rounded
\* to 0.1 m), so exact distances are out of order by less than 0.1 m.
C1_SortedByReportedDistance ==
    q_pc = "done" =>
        /\ \A i \in 1..Len(q_result) :
              /\ QDist(q_result[i]) <= QRadiusMm
              /\ q_result[i].distance_meters = round1(QDist(q_result[i]))
        /\ \A i, j \in 1..Len(q_result) :
              i < j => /\ q_result[i].distance_meters <= q_result[j].distance_meters
                       /\ QDist(q_result[i]) < QDist(q_result[j]) + 100

\* a lookup that returned two rows at different distances, the nearer one
\* later in the table, and left out a row that is beyond the radius
C1_Witness ==
    /\ q_pc = "done"
    /\ Len(q_result) >= 2
    /\ q_result[1].id > q_result[2].id
    /\ q_result[1].distance_meters < q_result[2].distance_meters
    /\ Len(q_result) < DfLen(parking_signs_df)

\* C2: a table row whose exact distance to the query point is within the
\* radius passes the bounding-box prefilter and is in the returned list.
C2_PrefilterSuperset ==
    (q_pc = "done" /\ LLCols \subseteq parking_signs_df.cols) =>
        \A i \in 1..DfLen(parking_signs_df) :
            LET row == Rows(parking_signs_df)[i]
            IN  (IsNum(row.lat) /\ IsNum(row.lon)
                 /\ geodesic(q_args.lat, q_args.lon, row.lat.v, row.lon.v) <= QRadiusMm)
                => /\ Prefilter(row, q_args.lat, q_args.lon, QRadiusMm \div 1000)
                   /\ \E k \in 1..Len(q_result) : q_result[k].id = row.id

\* a returned row that lies outside the box of half-width radius / 111000
\* degrees, so that only the factor 1.5 lets it through the prefilter
C2_Witness ==
    /\ q_pc = "done"
    /\ \E k \in 1..Len(q_result) :
          Abs(q_result[k].lon - q_args.lon) * 111 > (QRadiusMm \div 1000) * 100

----------------------------------------------------------------------------
(* load_real_violations (specification SpecIngest), one step per statement *)
(* that another thread or a failure can separate from the next: the fetch, *)
(* each iteration of the record loop, the commit of a batch, the pause     *)
(* after it, and the closing log lines.                                    *)

\* a JSON object of the violations endpoint
Violation(sn, plate) ==
    [kind |-> "dict", summons_number |-> sn, plate_id |-> plate, bindable |-> TRUE]

\* a JSON object whose plate_id is a nested object: sqlite3 cannot bind it
\* and cursor.execute raises
Unbindable(sn) ==
    [kind |-> "dict", summons_number |-> sn, plate_id |-> 0, bindable |-> FALSE]

\* an element of the response that is no JSON object (a string, null)
NotADict ==
    [kind |-> "str", summons_number |-> NullSn, plate_id |-> 0, bindable |-> FALSE]

\* the records the endpoint can serve, in the order it serves them
ViolationRecords ==
    << Violation(1, 1), Violation(NullSn, 1), Unbindable(2), NotADict,
       Violation(1, 2) >>

Feeds == Bodies(ViolationRecords, MaxFetch)

\* outcome of requests.get and raise_for_status (lines 420-426): the request
\* raises, the status is not 2xx, the body is an empty list, or it is the feed
FetchOutcomes == {"raise", "status", "empty", "ok"}

\* what _geocode_address returns: (None, None), a point inside the NYC box,
\* or a point outside it
GeocodeOutcomes == { <<>>, <<4075890, -7398510>>, <<4150000, -7300000>> }

serve_vars == <<store_vars, load_vars, query_vars>>

\* mutant of ReturnOnFetchFailure: the failure reported as success
ReturnTrueOnFetchFailure == <<TRUE>>

\* lines 428 and 536: return False
ReturnOnFetchFailure == <<FALSE>>

\* mutant of geocoded_after: every record counted
geocoded_after_always(count, coords) == count + 1

\* lines 469-470: if lat and lon: geocoded_count += 1
geocoded_after(count, coords) == IF coords # <<>> THEN count + 1 ELSE count

\* parking_routes.py line 252: the route calls load_real_violations(limit)
IngestStart ==
    /\ i_pc = "idle"
    /\ i_runs < MaxRuns
    /\ i_pc' = "fetch"
    /\ i_runs' = i_runs + 1
    /\ i_db_start' = db
    /\ UNCHANGED <<serve_vars, peer_vars, db_vars, i_prev_ret, i_fetch, i_data, i_idx, i_view,
                   i_lastw, i_raised, i_executed, i_committed, i_hits,
                   processed_count, geocoded_count, i_log, i_ret>>

\* lines 420-438: a failed or empty fetch returns False; otherwise the
\* connection is opened and the counters start at zero
FetchViolations(outcome) ==
    /\ i_pc = "fetch"
    /\ i_fetch' = outcome
    /\ IF outcome = "ok"
       THEN /\ i_pc' = "record"
            /\ i_data' = feed
            /\ i_idx' = 1
            /\ i_ret' = i_ret
       ELSE /\ i_pc' = "done"
            /\ i_ret' = ReturnOnFetchFailure
            /\ UNCHANGED <<i_data, i_idx>>
    /\ UNCHANGED <<serve_vars, peer_vars, db_vars, i_runs, i_prev_ret, i_view, i_lastw,
                   i_db_start, i_raised, i_executed, i_committed, i_hits,
                   processed_count, geocoded_count, i_log>>

\* mutant of LastOfBatch: one commit, after the last record of the run
LastOfRun == i_idx = Len(i_data)

\* the record at i_idx closes its batch (lines 445-446, 519)
LastOfBatch == i_idx % batch_size = 0 \/ i_idx = Len(i_data)

\* lines 447-516 for a record that is no dict: violation.get raises
\* AttributeError at line 452, the handler calls violation.get again at line
\* 515 and raises out of the loop, and the outer handler (lines 532-536)
\* returns False.  Neither commit nor close runs: the connection stays open
\* with its transaction until the garbage collector finalises it.
MalformedRecord ==
    /\ i_pc = "record"
    /\ i_data[i_idx].kind # "dict"
    /\ i_raised' = i_raised \cup {i_idx}
    /\ db_lock' = IF db_lock = "held" THEN "leaked" ELSE db_lock
    /\ i_ret' = <<FALSE>>
    /\ i_pc' = "done"
    /\ UNCHANGED <<serve_vars, peer_vars, feed, db, lastw, i_runs, i_prev_ret, i_fetch, i_data,
                   i_idx, i_view, i_lastw, i_db_start, i_executed, i_committed,
                   i_hits, processed_count, geocoded_count, i_log>>

\* lines 447-516 for a dict: the address is geocoded, geocoded_count is
\* raised on a hit, and the row is written with INSERT OR REPLACE.  The
\* first write of a transaction takes the write lock of the database file;
\* it raises OperationalError (database is locked) while a leaked connection
\* or the connection of a concurrent run holds the lock, and InterfaceError
\* for a value sqlite3 cannot bind.  The handler logs the error and the loop
\* goes on with the next record.  While the concurrent run is at its commit
\* the insert waits for the lock inside the busy timeout.
ProcessRecord(coords) ==
    /\ i_pc = "record"
    /\ i_data[i_idx].kind = "dict"
    /\ ~(db_lock = "peer" /\ p_pc # "record")
    /\ LET violation == i_data[i_idx]
           sn == violation.summons_number
           row == ViolationRow(sn, violation.plate_id, coords)
           executes == violation.bindable /\ db_lock \notin {"leaked", "peer"}
           table == IF db_lock = "held" THEN i_view ELSE db
           writes == IF db_lock = "held" THEN i_lastw ELSE lastw
       IN  /\ geocoded_count' = geocoded_after(geocoded_count, coords)
           /\ i_hits' = IF coords # <<>> THEN i_hits \cup {i_idx} ELSE i_hits
           /\ IF executes
              THEN /\ i_view' = Upsert(table, row)
                   /\ i_lastw' = IF sn = NullSn THEN writes
                                 ELSE [writes EXCEPT ![sn] = <<row>>]
                   /\ db_lock' = "held"
                   /\ processed_count' = processed_count + 1
                   /\ i_executed' = i_executed \cup {i_idx}
                   /\ i_raised' = i_raised
              ELSE /\ i_raised' = i_raised \cup {i_idx}
                   /\ UNCHANGED <<i_view, i_lastw, db_lock, processed_count,
                                  i_executed>>
    /\ i_idx' = i_idx + 1
    /\ i_pc' = IF LastOfBatch THEN "commit" ELSE "record"
    /\ UNCHANGED <<serve_vars, peer_vars, feed, db, lastw, i_runs, i_prev_ret, i_fetch, i_data,
                   i_db_start, i_committed, i_log, i_ret>>

\* line 519: conn.commit() makes the writes of the batch durable and gives
\* the lock back; without an open transaction it does nothing
CommitBatch ==
    /\ i_pc = "commit"
    /\ IF db_lock = "held"
       THEN /\ db' = i_view
            /\ lastw' = i_lastw
            /\ db_lock' = "free"
            /\ i_committed' = i_executed
       ELSE UNCHANGED <<db, lastw, db_lock, i_committed>>
    /\ i_pc' = "pause"
    /\ UNCHANGED <<serve_vars, peer_vars, feed, i_runs, i_prev_ret, i_fetch, i_data, i_idx,
                   i_view, i_lastw, i_db_start, i_raised, i_executed, i_hits,
                   processed_count, geocoded_count, i_log, i_ret>>

\* line 523: time.sleep(0.1), then the next batch or the end of the loop
PauseAfterBatch ==
    /\ i_pc = "pause"
    /\ i_pc' = IF i_idx > Len(i_data) THEN "finish" ELSE "record"
    /\ UNCHANGED <<serve_vars, peer_vars, db_vars, i_runs, i_prev_ret, i_fetch, i_data, i_idx,
                   i_view, i_lastw, i_db_start, i_raised, i_executed, i_committed,
                   i_hits, processed_count, geocoded_count, i_log, i_ret>>

\* lines 525-536: the connection is closed and processed_count is logged;
\* the next line logs geocoded_count with geocoded_count/processed_count,
\* which raises ZeroDivisionError when nothing was processed, and then the
\* outer handler returns False
FinishRun ==
    /\ i_pc = "finish"
    /\ IF processed_count = 0
       THEN i_log' = <<processed_count>> /\ i_ret' = <<FALSE>>
       ELSE i_log' = <<processed_count, geocoded_count>> /\ i_ret' = <<TRUE>>
    /\ i_pc' = "done"
    /\ UNCHANGED <<serve_vars, peer_vars, db_vars, i_runs, i_prev_ret, i_fetch, i_data, i_idx,
                   i_view, i_lastw, i_db_start, i_raised, i_executed, i_committed,
                   i_hits, processed_count, geocoded_count>>

\* the route answers (parking_routes.py lines 254-272) and the locals of the
\* call are gone
IngestReturn ==
    /\ i_pc = "done"
    /\ i_prev_ret' = i_ret
    /\ i_pc' = "idle" /\ i_fetch' = "none" /\ i_data' = <<>> /\ i_idx' = 0
    /\ i_view' = <<>> /\ i_lastw' = NoWrites /\ i_db_start' = <<>>
    /\ i_raised' = {} /\ i_executed' = {} /\ i_committed' = {} /\ i_hits' = {}
    /\ processed_count' = 0 /\ geocoded_count' = 0
    /\ i_log' = <<>> /\ i_ret' = <<>>
    /\ UNCHANGED <<serve_vars, peer_vars, db_vars, i_runs>>

\* the garbage collector finalises a connection that an aborted run left
\* open: its transaction is rolled back and the lock is free again
CollectGarbage ==
    /\ db_lock = "leaked"
    /\ db_lock' = "free"
    /\ UNCHANGED <<serve_vars, peer_vars, feed, db, lastw, run_vars>>

InitIngest ==
    /\ parking_signs_df = NoneDf
    /\ meter_zones_df = NoneDf
    /\ app_phase = "serving"
    /\ LoadIdle
    /\ QueryIdle
    /\ feed \in Feeds
    /\ db = <<>> /\ db_lock = "free" /\ lastw = NoWrites
    /\ i_runs = 0 /\ i_prev_ret = <<>>
    /\ RunIdle

NextIngest ==
    \/ IngestStart
    \/ \E o \in FetchOutcomes : FetchViolations(o)
    \/ MalformedRecord
    \/ \E c \in GeocodeOutcomes : ProcessRecord(c)
    \/ CommitBatch
    \/ PauseAfterBatch
    \/ FinishRun
    \/ IngestReturn
    \/ CollectGarbage

SpecIngest == InitIngest /\ [][NextIngest]_vars

----------------------------------------------------------------------------
(* Properties of the ingestion *)

\* C3: for every summons number the committed table holds no row when the
\* number was never written and otherwise exactly one row, which carries the
\* values of the last write that was committed for it, whether the earlier
\* write came from the same run or from an earlier run; the same holds of
\* the table the open transaction of a run sees.
C3_LastWriterWins ==
    /\ \A sn \in SummonsNumbers : RowsOf(db, sn) = lastw[sn]
    /\ db_lock = "held" => \A sn \in SummonsNumbers : RowsOf(i_view, sn) = i_lastw[sn]

\* the second run over a feed that writes summons number 1 twice has
\* returned: the row of the first run is replaced, and the one row left
\* carries the values of the second record of this run
C3_Witness ==
    /\ i_pc = "done" /\ i_runs = 2 /\ i_ret = <<TRUE>>
    /\ Len(i_data) >= 2
    /\ i_data[1].summons_number = 1 /\ i_data[2].summons_number = 1
    /\ i_data[1].plate_id # i_data[2].plate_id
    /\ {1, 2} \subseteq i_committed
    /\ Len(RowsOf(i_db_start, 1)) = 1
    /\ Len(RowsOf(db, 1)) = 1
    /\ RowsOf(db, 1) # RowsOf(i_db_start, 1)
    /\ RowsOf(db, 1)[1].plate_id = i_data[2].plate_id

\* C4 as stated: a run that completes after an earlier completed run over
\* the same fetched records leaves the number of rows of the table as it
\* found it.
C4_SecondRunKeepsRowCount ==
    (i_pc = "done" /\ i_ret = <<TRUE>> /\ i_prev_ret = <<TRUE>>) =>
        Len(db) = Len(i_db_start)

\* C5 as stated: when the processing of a record raised, every record of the
\* fetch was still processed and every insert that succeeded is committed.
C5_FailureIsolation ==
    (i_pc = "done" /\ i_fetch = "ok" /\ i_raised # {}) =>
        /\ i_raised \cup i_executed = 1..Len(i_data)
        /\ i_executed \subseteq i_committed

C11_StoredPointsInBox ==
    \A k \in 1..Len(db) :
        db[k].coords # <<>> => InBounds(db[k].coords[1], db[k].coords[2])

----------------------------------------------------------------------------
(* Reads of the violations table (get_violation_trends,                    *)
(* find_nearby_violations).  The rows carry, besides the columns of        *)
(* ViolationRow, the columns these queries look at.  An issue_date is kept *)
(* by its format ("iso" for text that SQLite's date functions parse, such  *)
(* as 2024-06-15 or 2024-06-15T00:00:00.000, "text" for any other text,    *)
(* "null" for NULL), its year, and its day counted from 2023-01-01.        *)
(* Descriptions are numbered; fines are whole dollars.                     *)

IssueDate(fmt, year, day) == [fmt |-> fmt, year |-> year, day |-> day]

NullDate == IssueDate("null", 0, 0)

Detailed(sn, description, borough, fine, date, coords) ==
    [summons_number |-> sn, plate_id |-> 0, coords |-> coords,
     violation_description |-> description, borough |-> borough,
     fine_amount |-> fine, issue_date |-> date]

\* SQL UPPER() on the borough names in use
UPPER(s) ==
    CASE s = "Manhattan" -> "MANHATTAN"
      [] s = "manhattan" -> "MANHATTAN"
      [] s = "bronx" -> "BRONX"
      [] OTHER -> s

\* strftime('%Y', issue_date) = str(year): NULL for a date SQLite cannot parse
YearIs(date, year) == date.fmt = "iso" /\ date.year = year

\* mutant of MatchesTrend: the borough compared as it is spelled
MatchesTrendCaseSensitive(row, borough, year) ==
    /\ (borough = <<>> \/ borough[1] = "" \/ row.borough = borough[1])
    /\ (year = <<>> \/ year[1] = 0 \/ YearIs(row.issue_date, year[1]))

\* the WHERE clause of lines 354-364; borough and year are <<>> when absent,
\* and `if borough:` / `if year:` skip an empty string and a zero
MatchesTrend(row, borough, year) ==
    /\ (borough = <<>> \/ borough[1] = "" \/ UPPER(row.borough) = UPPER(borough[1]))
    /\ (year = <<>> \/ year[1] = 0 \/ YearIs(row.issue_date, year[1]))

\* LIMIT 10 (line 369)
TrendLimit == 10

RECURSIVE SumFines(_)
SumFines(rows) == IF rows = <<>> THEN 0 ELSE Head(rows).fine_amount + SumFines(Tail(rows))

\* round(AVG(fine_amount), 2), in cents
avg_fine(rows) == (SumFines(rows) * 200 + Len(rows)) \div (2 * Len(rows))

\* the rows of one group
GroupOf(rows, description) ==
    LET in(r) == r.violation_description = description
    IN  SelectSeq(rows, in)

\* the dict appended at lines 384-388
Bucket(rows, description) ==
    [violation_type |-> description,
     count |-> Len(GroupOf(rows, description)),
     avg_fine |-> avg_fine(GroupOf(rows, description))]

Descriptions(rows) == { rows[i].violation_description : i \in 1..Len(rows) }

\* the description ORDER BY violation_count DESC puts first among ds; SQL
\* leaves the order of equal counts open, ties is the order the engine takes
FirstGroup(rows, ds, ties) ==
    CHOOSE d \in ds :
        \A e \in ds :
            LET nd == Len(GroupOf(rows, d))
                ne == Len(GroupOf(rows, e))
            IN  nd > ne \/ (nd = ne /\ IF ties = "asc" THEN d <= e ELSE d >= e)

RECURSIVE OrderGroups(_, _, _)
\* GROUP BY violation_description ORDER BY violation_count DESC
OrderGroups(rows, ds, ties) ==
    IF ds = {} THEN <<>>
    ELSE LET d == FirstGroup(rows, ds, ties)
         IN  <<Bucket(rows, d)>> \o OrderGroups(rows, ds \ {d}, ties)

RECURSIVE SumCounts(_)
SumCounts(trends) == IF trends = <<>> THEN 0 ELSE Head(trends).count + SumCounts(Tail(trends))

get_violation_trends(table, borough, year, ties) ==
    LET matches(r) == MatchesTrend(r, borough, year)
        rows == SelectSeq(table, matches)
        all == OrderGroups(rows, Descriptions(rows), ties)
        trends == IF Len(all) > TrendLimit THEN SubSeq(all, 1, TrendLimit) ELSE all
    IN  [trends |-> trends, total_violations |-> SumCounts(trends)]

\* rows of a small table: A = 1, B = 2, C = 3
TrendRows ==
    { Detailed(1, 1, "MANHATTAN", 10, IssueDate("iso", 2024, 400), <<>>),
      Detailed(2, 1, "Manhattan", 20, IssueDate("iso", 2024, 500), <<>>),
      Detailed(3, 2, "MANHATTAN", 30, IssueDate("iso", 2023, 100), <<>>),
      Detailed(4, 1, "BRONX", 25, IssueDate("iso", 2023, 200), <<>>),
      Detailed(5, 3, "BRONX", 50, NullDate, <<>>) }

\* a table with n descriptions, description d on (d % 3) + 1 rows
ManyGroups(n) ==
    LET rowsOf(d) == [i \in 1..((d % 3) + 1) |->
                         Detailed(NullSn, d, "QUEENS", 35 + d, IssueDate("iso", 2024, 400), <<>>)]
        F[d \in 0..n] == IF d = 0 THEN <<>> ELSE F[d - 1] \o rowsOf(d)
    IN  F[n]

TrendTables ==
    SeqsUpTo(TrendRows, MaxRows) \cup { ManyGroups(n) : n \in {10, 11, 12} }

TrendBoroughs == { <<>>, <<"manhattan">>, <<"BRONX">>, <<"QUEENS">>, <<"">> }

TrendYears == { <<>>, <<2024>>, <<2023>>, <<2022>>, <<0>> }

\* parking_routes.py lines 106-109, or a direct call
GetViolationTrends(borough, year, ties) ==
    /\ k_pc = "ready"
    /\ k_call' = [op |-> "get_violation_trends", borough |-> borough, year |-> year]
    /\ k_result' = get_violation_trends(db, borough, year, ties)
    /\ k_pc' = "done"
    /\ UNCHANGED <<store_vars, load_vars, db_vars, run_vars, peer_vars, q_pc, q_args, q_result>>

\* the next request
NextCall ==
    /\ k_pc = "done"
    /\ k_pc' = "ready" /\ k_call' = NoCall /\ k_result' = <<>>
    /\ UNCHANGED <<store_vars, load_vars, db_vars, run_vars, peer_vars, q_pc, q_args, q_result>>

InitTrends ==
    /\ parking_signs_df = NoneDf
    /\ meter_zones_df = NoneDf
    /\ app_phase = "serving"
    /\ LoadIdle
    /\ QueryIdle
    /\ feed = <<>> /\ db \in TrendTables /\ db_lock = "free" /\ lastw = NoWrites
    /\ i_runs = 0 /\ i_prev_ret = <<>>
    /\ RunIdle

NextTrends ==
    \/ \E b \in TrendBoroughs, y \in TrendYears, t \in {"asc", "desc"} :
          GetViolationTrends(b, y, t)
    \/ NextCall

SpecTrends == InitTrends /\ [][NextTrends]_vars

----------------------------------------------------------------------------
(* Properties of get_violation_trends *)

TrendCalled == k_pc = "done" /\ k_call.op = "get_violation_trends"

\* the indices of the rows of db that have the borough of the call, compared
\* case-insensitively, unless noBorough, and the year of the call unless noYear
TrendMatching(noBorough, noYear) ==
    { i \in 1..Len(db) :
        /\ noBorough \/ UPPER(db[i].borough) = UPPER(k_call.borough[1])
        /\ noYear \/ YearIs(db[i].issue_date, k_call.year[1]) }

\* the result is the grouping of the rows M of db: one bucket per
\* description in M with its count and its average fine to the cent, counts
\* non-increasing, at most 10 buckets, and no description that was left out
\* has more rows than one that is in
TrendsOf(M) ==
    LET trends == k_result.trends
        types == { trends[k].violation_type : k \in 1..Len(trends) }
        all == { db[i].violation_description : i \in M }
        members(d) == { i \in M : db[i].violation_description = d }
        sum(g) ==
            LET acc[n \in 0..Len(db)] ==
                    IF n = 0 THEN 0
                    ELSE acc[n - 1] + (IF n \in g THEN db[n].fine_amount ELSE 0)
            IN  acc[Len(db)]
    IN  /\ types \subseteq all
        /\ Cardinality(types) = Len(trends)
        /\ Len(trends) = IF Cardinality(all) > 10 THEN 10 ELSE Cardinality(all)
        /\ \A k \in 1..Len(trends) :
              LET g == members(trends[k].violation_type)
              IN  /\ trends[k].count = Cardinality(g)
                  /\ 2 * Cardinality(g) * trends[k].avg_fine - 200 * sum(g)
                        \in (1 - Cardinality(g))..Cardinality(g)
        /\ \A j, k \in 1..Len(trends) : j < k => trends[j].count >= trends[k].count
        /\ \A d \in all \ types, k \in 1..Len(trends) :
              Cardinality(members(d)) <= trends[k].count
        /\ M = {} => trends = <<>>

\* C12 as stated: for every borough and year that are given, the result is
\* the grouping of the rows with that borough and that year.
C12_AsStated ==
    TrendCalled =>
        TrendsOf(TrendMatching(k_call.borough = <<>>, k_call.year = <<>>))

\* C12 amended: an empty borough and a year of 0 count as no filter; the
\* result is the grouping of the rows that match the remaining filters, the
\* average fine rounded to the cent; rows {A, A, B} with fines {10, 20, 30}
\* give A (2, 15.00) before B (1, 30.00).
C12_TrendsOfMatchingRows ==
    TrendCalled =>
        /\ TrendsOf(TrendMatching(k_call.borough \in { <<>>, <<"">> },
                                  k_call.year \in { <<>>, <<0>> }))
        /\ ( /\ Len(db) = 3 /\ k_call.borough = <<>> /\ k_call.year = <<>>
             /\ { <<db[i].violation_description, db[i].fine_amount>> : i \in 1..3 }
                    = { <<1, 10>>, <<1, 20>>, <<2, 30>> } )
            => k_result.trends =
                  << [violation_type |-> 1, count |-> 2, avg_fine |-> 1500],
                     [violation_type |-> 2, count |-> 1, avg_fine |-> 3000] >>

\* a call that left two of twelve groups out and returned groups of
\* different sizes
C12_Witness ==
    /\ TrendCalled
    /\ Cardinality(Descriptions(db)) = 12
    /\ Len(k_result.trends) = 10
    /\ k_result.trends[1].count > k_result.trends[10].count

----------------------------------------------------------------------------
(* find_nearby_violations.  The query computes the great-circle distance   *)
(* on a sphere of radius 6371000 m by the spherical law of cosines: one    *)
(* unit (1e-5 degree) of latitude is 1112 mm, one unit of longitude 846 mm *)
(* at the southern edge of the box and 840 mm at the northern edge.        *)

SphLatMm == 1112
SphLonMmSouth == 846
SphLonMmNorth == 840

SphLonMm(lat) ==
    SphLonMmSouth
      - (((lat - LatMin) * (SphLonMmSouth - SphLonMmNorth)) \div (LatMax - LatMin))

\* latitudes near the base point at which, for a row at the query point
\* itself, cos(a)*cos(a)*cos(0) + sin(a)*sin(a) comes out above 1 in double
\* arithmetic (1057 of the 44021 grid latitudes of the box do): acos of it
\* is NULL in SQLite
AcosDomainErrorLats == {4075874, 4075956, 4075995}

\* the column distance_meters of the subquery (lines 814-818): <<mm>>, or
\* <<>> for NULL
sql_distance(lat, lon, coords) ==
    IF coords = <<lat, lon>> /\ lat \in AcosDomainErrorLats THEN <<>>
    ELSE LET dy == Abs(lat - coords[1]) * SphLatMm
             dx == Abs(lon - coords[2]) * SphLonMm((lat + coords[1]) \div 2)
             s  == ScaleFor(IF dy > dx THEN dy ELSE dx, 1)
         IN  << ISqrt((dy \div s) * (dy \div s) + (dx \div s) * (dx \div s)) * s >>

\* date(x) of SQLite: <<day>>, or <<>> for NULL
sql_date(d) == IF d.fmt = "iso" THEN <<d.day>> ELSE <<>>

\* mutant of DateFilter: the bounds excluded
DateFilterExclusive(row, start_date, end_date) ==
    /\ (start_date = <<>> \/
           ( /\ sql_date(row.issue_date) # <<>> /\ sql_date(start_date[1]) # <<>>
             /\ sql_date(row.issue_date)[1] > sql_date(start_date[1])[1] ))
    /\ (end_date = <<>> \/
           ( /\ sql_date(row.issue_date) # <<>> /\ sql_date(end_date[1]) # <<>>
             /\ sql_date(row.issue_date)[1] < sql_date(end_date[1])[1] ))

\* lines 826-832: date(issue_date) >= date(?) and date(issue_date) <= date(?),
\* each only when the bound is given; a comparison with NULL keeps no row
DateFilter(row, start_date, end_date) ==
    /\ (start_date = <<>> \/
           ( /\ sql_date(row.issue_date) # <<>> /\ sql_date(start_date[1]) # <<>>
             /\ sql_date(row.issue_date)[1] >= sql_date(start_date[1])[1] ))
    /\ (end_date = <<>> \/
           ( /\ sql_date(row.issue_date) # <<>> /\ sql_date(end_date[1]) # <<>>
             /\ sql_date(row.issue_date)[1] <= sql_date(end_date[1])[1] ))

\* a row of the result: the row of the table (rowid is its place in the
\* table) with its distance; mm is the distance the query ordered by and
\* distance_meters is round(distance_meters, 1) of line 849, in decimetres
Nearby(table, i, mm) ==
    [rowid |-> i, coords |-> table[i].coords, issue_date |-> table[i].issue_date,
     mm |-> mm, distance_meters |-> round1(mm)]

RECURSIVE InsertByMm(_, _)
InsertByMm(s, e) ==
    IF s = <<>> THEN <<e>>
    ELSE IF Head(s).mm <= e.mm THEN <<Head(s)>> \o InsertByMm(Tail(s), e)
         ELSE <<e>> \o s

RECURSIVE OrderByMm(_)
\* ORDER BY distance_meters ASC (rows of equal distance in rowid order)
OrderByMm(s) ==
    IF s = <<>> THEN <<>>
    ELSE InsertByMm(OrderByMm(SubSeq(s, 1, Len(s) - 1)), s[Len(s)])

RECURSIVE Qualifying(_, _, _, _, _, _, _)
\* the rows from place i on that pass the WHERE clauses of lines 820-836
Qualifying(table, i, lat, lon, radius_meters, start_date, end_date) ==
    IF i > Len(table) THEN <<>>
    ELSE LET row == table[i]
             rest == Qualifying(table, i + 1, lat, lon, radius_meters,
                                start_date, end_date)
             d == IF row.coords = <<>> THEN <<>>
                  ELSE sql_distance(lat, lon, row.coords)
         IN  IF /\ row.coords # <<>>
                /\ DateFilter(row, start_date, end_date)
                /\ d # <<>>
                /\ d[1] <= radius_meters * 1000
             THEN <<Nearby(table, i, d[1])>> \o rest
             ELSE rest

find_nearby_violations(table, lat, lon, radius_meters, start_date, end_date, limit) ==
    LET ordered == OrderByMm(Qualifying(table, 1, lat, lon, radius_meters,
                                        start_date, end_date))
    IN  IF Len(ordered) > limit THEN SubSeq(ordered, 1, limit) ELSE ordered

\* the point the rows lie around, and the point of the query
ViolationBase == <<4075874, -7398510>>

At(dlat, dlon) == <<ViolationBase[1] + dlat, ViolationBase[2] + dlon>>

\* rows of a table: at the base, 4.4 m, 9.3 m and 10.2 m from it, without
\* coordinates, and without a date
NearRows ==
    { Detailed(1, 1, "MANHATTAN", 65, IssueDate("iso", 2024, 400), At(0, 0)),
      Detailed(2, 1, "MANHATTAN", 65, IssueDate("iso", 2024, 500), At(4, 0)),
      Detailed(3, 1, "MANHATTAN", 65, IssueDate("iso", 2024, 400), At(0, 11)),
      Detailed(4, 1, "MANHATTAN", 65, IssueDate("iso", 2024, 450), At(0, 12)),
      Detailed(5, 1, "MANHATTAN", 65, IssueDate("iso", 2024, 400), <<>>),
      Detailed(6, 1, "MANHATTAN", 65, NullDate, At(1, 5)) }

NearTables == SeqsUpTo(NearRows, MaxRows)

QueryPoints == { At(0, 0), At(0, -2) }

NearRadii == {10, 1000}

StartDates == { <<>>, <<IssueDate("iso", 2024, 400)>>, <<IssueDate("iso", 2024, 500)>> }

EndDates == { <<>>, <<IssueDate("iso", 2024, 400)>>, <<IssueDate("iso", 2024, 450)>> }

Limits == {1, 100}

\* parking_routes.py lines 443-445, after the validation of the route
FindNearbyViolations(lat, lon, radius_meters, start_date, end_date, limit) ==
    /\ k_pc = "ready"
    /\ InBounds(lat, lon)
    /\ k_call' = [op |-> "find_nearby_violations", lat |-> lat, lon |-> lon,
                  radius_meters |-> radius_meters, start_date |-> start_date,
                  end_date |-> end_date, limit |-> limit]
    /\ k_result' = find_nearby_violations(db, lat, lon, radius_meters,
                                          start_date, end_date, limit)
    /\ k_pc' = "done"
    /\ UNCHANGED <<store_vars, load_vars, db_vars, run_vars, peer_vars, q_pc, q_args, q_result>>

InitViolations ==
    /\ parking_signs_df = NoneDf
    /\ meter_zones_df = NoneDf
    /\ app_phase = "serving"
    /\ LoadIdle
    /\ QueryIdle
    /\ feed = <<>> /\ db \in NearTables /\ db_lock = "free" /\ lastw = NoWrites
    /\ i_runs = 0 /\ i_prev_ret = <<>>
    /\ RunIdle

NextViolations ==
    \/ \E p \in QueryPoints, r \in NearRadii, s \in StartDates, e \in EndDates,
          l \in Limits :
          FindNearbyViolations(p[1], p[2], r, s, e, l)
    \/ NextCall

SpecViolations == InitViolations /\ [][NextViolations]_vars

----------------------------------------------------------------------------
(* Properties of find_nearby_violations *)

NearbyCalled == k_pc = "done" /\ k_call.op = "find_nearby_violations"

\* great-circle distance of row i of db to the query point, in mm
TrueDistance(i) ==
    LET c == db[i].coords
        dy == Abs(k_call.lat - c[1]) * SphLatMm
        dx == Abs(k_call.lon - c[2]) * SphLonMm((k_call.lat + c[1]) \div 2)
        s  == ScaleFor(IF dy > dx THEN dy ELSE dx, 1)
    IN  ISqrt((dy \div s) * (dy \div s) + (dx \div s) * (dx \div s)) * s

\* row i of db is inside the date range of the call
InDateRange(i) ==
    /\ k_call.start_date # <<>> =>
          (db[i].issue_date.fmt = "iso"
           /\ db[i].issue_date.day >= k_call.start_date[1].day)
    /\ k_call.end_date # <<>> =>
          (db[i].issue_date.fmt = "iso"
           /\ db[i].issue_date.day <= k_call.end_date[1].day)

\* the rows of db with coordinates, within the radius and the date range
QualifyingRows ==
    { i \in 1..Len(db) :
        /\ db[i].coords # <<>>
        /\ TrueDistance(i) <= k_call.radius_meters * 1000
        /\ InDateRange(i) }

Returned == { k_result[k].rowid : k \in 1..Len(k_result) }

\* C13 as stated: the rows returned have coordinates and lie within the
\* radius, they are in ascending order of distance, they are at most limit,
\* and they are the closest of the qualifying rows: all of them when there
\* are at most limit, and otherwise none that was left out is nearer than
\* one that is in.
C13_ClosestWithinRadius ==
    NearbyCalled =>
        /\ Returned \subseteq QualifyingRows
        /\ Cardinality(Returned) = Len(k_result)
        /\ \A j, k \in 1..Len(k_result) :
              j < k => TrueDistance(k_result[j].rowid) <= TrueDistance(k_result[k].rowid)
        /\ Len(k_result) = IF Cardinality(QualifyingRows) > k_call.limit
                           THEN k_call.limit ELSE Cardinality(QualifyingRows)
        /\ \A i \in QualifyingRows \ Returned, r \in Returned :
              TrueDistance(r) <= TrueDistance(i)

\* C14: every row returned lies inside the inclusive date range of the
\* bounds that are given; a row with coordinates whose distance the query
\* could compute within the radius and whose date lies in the range,
\* bounds included, is returned when the limit leaves room; and a call with
\* start_date after end_date returns the empty list.
C14_InclusiveDateRange ==
    NearbyCalled =>
        /\ \A r \in Returned : InDateRange(r)
        /\ Len(k_result) < k_call.limit =>
              \A i \in 1..Len(db) :
                  ( /\ db[i].coords # <<>>
                    /\ sql_distance(k_call.lat, k_call.lon, db[i].coords) # <<>>
                    /\ TrueDistance(i) <= k_call.radius_meters * 1000
                    /\ InDateRange(i) )
                  => i \in Returned
        /\ ( /\ k_call.start_date # <<>> /\ k_call.end_date # <<>>
             /\ k_call.start_date[1].day > k_call.end_date[1].day )
           => k_result = <<>>

\* a call with both bounds on the same day returned a row of that day, and
\* the table holds a row of another day within the radius
C14_Witness ==
    /\ NearbyCalled
    /\ k_call.start_date # <<>> /\ k_call.end_date = k_call.start_date
    /\ \E r \in Returned : db[r].issue_date.day = k_call.start_date[1].day
    /\ \E i \in 1..Len(db) :
          /\ i \notin Returned /\ db[i].coords # <<>>
          /\ db[i].issue_date.fmt = "iso"
          /\ TrueDistance(i) <= k_call.radius_meters * 1000

----------------------------------------------------------------------------
(* find_nearest_meter_zone (specification SpecMeter).  In a meter table    *)
(* the cells of the columns lat and long are the fields lat and lon of a   *)
(* row.                                                                    *)

\* radius_meters of line 298
MeterRadius == 500

\* nearby_df.head(20), line 318
HeadLimit == 20

\* mutant of head: every row
head_all(rows, n) == rows

\* DataFrame.head(n)
head(rows, n) == IF Len(rows) > n THEN SubSeq(rows, 1, n) ELSE rows

\* the mask of lines 302-308, on the coerced cells
MeterPrefilter(row, lat, lon) ==
    /\ WithinBuffer(to_numeric(row.lat), lat, MeterRadius)
    /\ WithinBuffer(to_numeric(row.lon), lon, MeterRadius)

\* float(cell): the number of a float or of a numeric string; ValueError or
\* TypeError otherwise
FloatRaises(cell) == cell.k = "junk" \/ cell.k = "nan"

\* nearest_meter of lines 329-330
MeterData(row, distance) ==
    [id |-> row.id, lat |-> row.lat.v, lon |-> row.lon.v, mm |-> distance,
     distance_meters |-> round1(distance)]

RECURSIVE NearestOf(_, _, _, _)
\* the loop of lines 318-330: best is <<>> for None or <<nearest_meter>>
NearestOf(rows, lat, lon, best) ==
    IF rows = <<>> THEN best
    ELSE LET row == Head(rows)
         IN  IF FloatRaises(row.lat) \/ FloatRaises(row.lon)
             THEN NearestOf(Tail(rows), lat, lon, best)
             ELSE LET distance == geodesic(lat, lon, row.lat.v, row.lon.v)
                  IN  IF best = <<>> \/ distance < best[1].mm
                      THEN NearestOf(Tail(rows), lat, lon, <<MeterData(row, distance)>>)
                      ELSE NearestOf(Tail(rows), lat, lon, best)

\* the value returned: <<>> for None, <<nearest_meter>> otherwise
find_nearest_meter_zone(df, lat, lon) ==
    IF NoneOrEmpty(df) THEN <<>>
    ELSE IF ~(MeterCols \subseteq df.cols) THEN <<>>
    ELSE LET keep(row) == MeterPrefilter(row, lat, lon)
             nearby_df == SelectSeq(Rows(df), keep)
         IN  NearestOf(head(nearby_df, HeadLimit), lat, lon, <<>>)

\* the query point of the examples, (40.7589, -73.9851)
MeterQuery == <<4075890, -7398510>>

Zone(id, dlat, dlon) ==
    Row(id, NaN, NaN, Num(MeterQuery[1] + dlat), Num(MeterQuery[2] + dlon))

\* zones: (40.7590, -73.9850), (40.80, -74.00), one 666 m to the north
\* (inside the prefilter box), one east of the box, one 5.5 m to the north
Zones ==
    { Zone(1, 10, 10), Zone(2, 4110, -1490), Zone(3, 600, 0), Zone(4, 0, 700),
      Zone(5, 5, 0) }

Renumbered(rows) == [i \in 1..Len(rows) |-> [rows[i] EXCEPT !.id = i]]

\* n zones some 20 m away, then the zones of tail
Crowd(n, tail) ==
    Renumbered([i \in 1..n |-> Zone(i, 15 + i, 10)] \o tail)

\* tables load_meter_zones can leave: numeric rows inside the NYC box, an
\* empty table, a table without the column long, or no table
MeterTables ==
    { Frame(MeterCols, Renumbered(rows)) : rows \in SeqsUpTo(Zones, MaxRows) }
    \cup { Frame(MeterCols, Crowd(n, tail)) :
             n \in {19, 20},
             tail \in { <<Zone(0, 5, 0)>>, <<Zone(0, 0, 700), Zone(0, 5, 0)>> } }
    \cup { Frame({"lat"}, <<Row(1, NaN, NaN, Num(MeterQuery[1]), NaN)>>), NoneDf }

\* parking_routes.py lines 146-168
FindNearestMeterZone(lat, lon) ==
    /\ k_pc = "ready"
    /\ InBounds(lat, lon)
    /\ k_call' = [op |-> "find_nearest_meter_zone", lat |-> lat, lon |-> lon]
    /\ k_result' = find_nearest_meter_zone(meter_zones_df, lat, lon)
    /\ k_pc' = "done"
    /\ UNCHANGED <<store_vars, load_vars, db_vars, run_vars, peer_vars, q_pc, q_args, q_result>>

InitMeter ==
    /\ parking_signs_df = NoneDf
    /\ meter_zones_df \in MeterTables
    /\ app_phase = "serving"
    /\ LoadIdle
    /\ QueryIdle
    /\ DbIdle

NextMeter ==
    \/ \E o \in { <<0, 0>>, <<0, -2>>, <<3, 0>> } :
          FindNearestMeterZone(MeterQuery[1] + o[1], MeterQuery[2] + o[2])
    \/ NextCall

SpecMeter == InitMeter /\ [][NextMeter]_vars

----------------------------------------------------------------------------
(* Properties of find_nearest_meter_zone *)

MeterCalled == k_pc = "done" /\ k_call.op = "find_nearest_meter_zone"

\* row i of the meter table lies in the prefilter box of the call: within
\* 1.5 * 500 / 111000 degrees of the query point on both axes
InMeterBox(i) ==
    LET row == Rows(meter_zones_df)[i]
    IN  /\ IsNum(row.lat) /\ IsNum(row.lon)
        /\ Abs(row.lat.v - k_call.lat) * 222 <= 150000
        /\ Abs(row.lon.v - k_call.lon) * 222 <= 150000

\* the rows examined: the first 20 rows, in store order, in the box
Examined ==
    IF NoneOrEmpty(meter_zones_df) \/ ~(MeterCols \subseteq meter_zones_df.cols)
    THEN {}
    ELSE { i \in 1..DfLen(meter_zones_df) :
             /\ InMeterBox(i)
             /\ Cardinality({ j \in 1..(i - 1) : InMeterBox(j) }) < 20 }

MeterDist(i) ==
    geodesic(k_call.lat, k_call.lon,
             Rows(meter_zones_df)[i].lat.v, Rows(meter_zones_df)[i].lon.v)

\* C15: the call returns None when no row is examined; otherwise it returns
\* one of the rows examined, no row examined is nearer than it, and the
\* distance attached is its distance rounded to 0.1 m.  With zones at
\* (40.7590, -73.9850) and (40.80, -74.00) the query (40.7589, -73.9851)
\* returns the first.
C15_NearestOfFirstTwenty ==
    MeterCalled =>
        /\ (k_result = <<>>) <=> (Examined = {})
        /\ k_result # <<>> =>
              /\ k_result[1].id \in Examined
              /\ \A i \in Examined : MeterDist(k_result[1].id) <= MeterDist(i)
              /\ k_result[1].distance_meters = round1(MeterDist(k_result[1].id))
        /\ ( /\ meter_zones_df = Frame(MeterCols, Renumbered(<<Zone(0, 10, 10),
                                                             Zone(0, 4110, -1490)>>))
             /\ k_call.lat = MeterQuery[1] /\ k_call.lon = MeterQuery[2] )
           => (k_result # <<>> /\ k_result[1].id = 1)

\* the nearest zone of the table is the 21st row inside the box, behind a
\* row outside it, and the call returned another zone
C15_Witness ==
    /\ MeterCalled
    /\ DfLen(meter_zones_df) = 22
    /\ Cardinality({ i \in 1..22 : InMeterBox(i) }) = 21
    /\ k_result # <<>>
    /\ MeterDist(22) < MeterDist(k_result[1].id)

----------------------------------------------------------------------------
(* The boundary layer (specification SpecRoutes): validate_nyc_coordinates *)
(* and the three routes that take lat and lon.  A query parameter is <<>>  *)
(* when it is missing (request.args.get returns None), and otherwise a     *)
(* float: Num(n), or NaN for ?lat=nan.                                     *)

\* mutant of validate_nyc_coordinates: the bounds excluded
validate_nyc_coordinates_exclusive(lat, lon) ==
    IF ~(IsNum(lat) /\ LatMin < lat.v /\ lat.v < LatMax)
    THEN <<FALSE, "Latitude must be within NYC bounds">>
    ELSE IF ~(IsNum(lon) /\ LonMin < lon.v /\ lon.v < LonMax)
    THEN <<FALSE, "Longitude must be within NYC bounds">>
    ELSE <<TRUE, "">>

\* helpers.py lines 19-30; a comparison with NaN is False
validate_nyc_coordinates(lat, lon) ==
    IF ~(IsNum(lat) /\ LatMin <= lat.v /\ lat.v <= LatMax)
    THEN <<FALSE, "Latitude must be within NYC bounds">>
    ELSE IF ~(IsNum(lon) /\ LonMin <= lon.v /\ lon.v <= LonMax)
    THEN <<FALSE, "Longitude must be within NYC bounds">>
    ELSE <<TRUE, "">>

Routes == {"/parking-signs", "/meter-rate", "/violations"}

\* the data-access operation behind a route
CoreOf(route) ==
    CASE route = "/parking-signs" -> "find_nearby_parking_signs"
      [] route = "/meter-rate" -> "find_nearest_meter_zone"
      [] OTHER -> "find_nearby_violations"

\* the radius a route accepts (parking_routes.py lines 38 and 404); the
\* parameter defaults to 100 and to 1000
RadiusOk(route, radius) ==
    CASE route = "/parking-signs" -> 10 <= radius /\ radius <= 1000
      [] route = "/violations" -> 10 <= radius /\ radius <= 5000
      [] OTHER -> TRUE

\* the answer of a route that did not reach the data loader
Rejected == [status |-> 400, called |-> "none", result |-> <<>>]

\* get_parking_signs, get_meter_rate and get_violations up to their return:
\* missing parameters, validate_nyc_coordinates, the radius check, and then
\* the call of the data loader
Route(route, lat, lon, radius) ==
    /\ k_pc = "ready"
    /\ k_call' = [op |-> route, lat |-> lat, lon |-> lon, radius |-> radius]
    /\ k_result' =
          IF lat = <<>> \/ lon = <<>> THEN Rejected
          ELSE IF ~validate_nyc_coordinates(lat[1], lon[1])[1] THEN Rejected
          ELSE IF ~RadiusOk(route, radius) THEN Rejected
          ELSE [status |-> 200, called |-> CoreOf(route),
                result |->
                   CASE route = "/parking-signs" ->
                          find_nearby_parking_signs(parking_signs_df, lat[1].v, lon[1].v,
                                                    <<radius>>)
                     [] route = "/meter-rate" ->
                          find_nearest_meter_zone(meter_zones_df, lat[1].v, lon[1].v)
                     [] OTHER ->
                          find_nearby_violations(db, lat[1].v, lon[1].v, radius,
                                                 <<>>, <<>>, 100)]
    /\ k_pc' = "done"
    /\ UNCHANGED <<store_vars, load_vars, db_vars, run_vars, peer_vars, q_pc, q_args, q_result>>

\* values of the parameter lat: missing, nan, and latitudes at and next to
\* the bounds and inside
LatArgs ==
    { <<>>, <<NaN>>, <<Num(LatMin - 1)>>, <<Num(LatMin)>>, <<Num(MeterQuery[1])>>,
      <<Num(LatMax)>>, <<Num(LatMax + 1)>> }

LonArgs ==
    { <<>>, <<NaN>>, <<Num(LonMin - 1)>>, <<Num(LonMin)>>, <<Num(MeterQuery[2])>>,
      <<Num(LonMax)>>, <<Num(LonMax + 1)>> }

RadiusArgs == {5, 100, 1000}

InitRoutes ==
    /\ parking_signs_df = ClusterFrame(MeterQuery, << <<0, 0>>, <<4, 0>> >>)
    /\ meter_zones_df = Frame(MeterCols, <<Zone(1, 10, 10)>>)
    /\ app_phase = "serving"
    /\ LoadIdle
    /\ QueryIdle
    /\ feed = <<>> /\ db_lock = "free" /\ lastw = NoWrites
    /\ db = << Detailed(1, 1, "MANHATTAN", 65, IssueDate("iso", 2024, 400),
                        <<MeterQuery[1] + 4, MeterQuery[2]>>) >>
    /\ i_runs = 0 /\ i_prev_ret = <<>>
    /\ RunIdle

NextRoutes ==
    \/ \E r \in Routes, lat \in LatArgs, lon \in LonArgs, radius \in RadiusArgs :
          Route(r, lat, lon, radius)
    \/ NextCall

SpecRoutes == InitRoutes /\ [][NextRoutes]_vars

----------------------------------------------------------------------------
(* Properties of the boundary layer *)

RouteCalled == k_pc = "done" /\ k_call.op \in Routes

\* both parameters are numbers inside the box 40.4774 .. 40.9176,
\* -74.2591 .. -73.7004, bounds included
ArgsInBox ==
    /\ k_call.lat # <<>> /\ k_call.lon # <<>>
    /\ k_call.lat[1].k = "num" /\ k_call.lon[1].k = "num"
    /\ k_call.lat[1].v \in 4047740..4091760
    /\ k_call.lon[1].v \in -7425910..-7370040

\* C16: validate_nyc_coordinates returns (True, "") exactly for a point of the
\* box, bounds included; a route reaches its data-access operation only with
\* such a point, and answers 400 without calling it otherwise.
C16_ValidatedBeforeCore ==
    RouteCalled =>
        /\ (k_call.lat # <<>> /\ k_call.lon # <<>>) =>
              LET v == validate_nyc_coordinates(k_call.lat[1], k_call.lon[1])
              IN  /\ (v = <<TRUE, "">>) <=> ArgsInBox
                  /\ v[1] <=> (v[2] = "")
        /\ k_result.called # "none" =>
              (ArgsInBox /\ k_result.called = CoreOf(k_call.op))
        /\ ~ArgsInBox => (k_result.status = 400 /\ k_result.called = "none")

\* a route was called with a corner of the box and reached the data loader
C16_Witness ==
    /\ RouteCalled
    /\ k_call.lat = <<Num(LatMax)>> /\ k_call.lon = <<Num(LonMin)>>
    /\ k_result.status = 200
    /\ k_result.called = "find_nearest_meter_zone"

----------------------------------------------------------------------------
(* Accuracy of the conversion at the reference point                       *)

\* a converted record of the reference point in the signs table: the
\* EPSG:2263 coordinates of lat 40.7128, lon -74.0060 are x = 982587 ft,
\* y = 198973 ft
IsReference(row) ==
    /\ row.x = Num(982587) /\ row.y = Num(198973)
    /\ IsNum(row.lat) /\ IsNum(row.lon)

\* C17: on either conversion path the reference point of the state plane
\* (the point at lat 40.7128, lon -74.0060) comes out with a latitude and a
\* longitude each within 0.01 degree (1000 units of 1e-5 degree) of these
\* values.
C17_ReferenceWithinTolerance ==
    \A i \in 1..DfLen(parking_signs_df) :
        LET row == Rows(parking_signs_df)[i] IN
        IsReference(row) =>
            /\ Abs(row.lat.v - base_lat) <= 1000
            /\ Abs(row.lon.v - base_lon) <= 1000

----------------------------------------------------------------------------
(* Order of the batches of a run                                           *)

\* the batch of the record at index j, counted from 0 (lines 445-446)
BatchOf(j) == (j - 1) \div batch_size

\* the run was aborted at the record i_idx (lines 532-536)
Aborted == i_pc = "done" /\ i_fetch = "ok" /\ i_idx <= Len(i_data)

\* the last record of the set S that carries the summons number sn
LastWith(S, sn) ==
    LET same == {j \in S : i_data[j].summons_number = sn}
    IN  CHOOSE j \in same : \A k \in same : k <= j

NullRows(table) == Len(RowsOf(table, NullSn))

\* every record an earlier batch wrote is committed while a record is up
EarlierBatchesCommitted ==
    i_pc = "record" =>
        \A j \in i_executed : BatchOf(j) < BatchOf(i_idx) => j \in i_committed

\* process batch, commit, pause, next batch
BatchOrder ==
    /\ (i_pc = "record" /\ i_pc' = "record") => BatchOf(i_idx') = BatchOf(i_idx)
    /\ (i_pc = "record" /\ i_pc' \notin {"record", "done"}) => i_pc' = "commit"
    /\ i_pc = "commit" => i_pc' \in {"commit", "pause"}
    /\ (i_pc = "pause" /\ i_pc' = "record") => BatchOf(i_idx') > BatchOf(i_idx' - 1)
    /\ (i_pc # "record" /\ i_pc' = "record") => i_pc \in {"fetch", "pause"}

\* what the batches before the aborted one committed is in the table
CommittedBatchesRemain ==
    Aborted =>
        /\ i_ret = <<FALSE>>
        /\ i_committed = {j \in i_executed : BatchOf(j) < BatchOf(i_idx)}
        /\ \A j \in i_committed :
              LET sn == i_data[j].summons_number IN
              sn # NullSn =>
                  /\ Len(RowsOf(db, sn)) = 1
                  /\ RowsOf(db, sn)[1].plate_id
                         = i_data[LastWith(i_committed, sn)].plate_id
        /\ NullRows(db) = NullRows(i_db_start)
             + Cardinality({j \in i_committed : i_data[j].summons_number = NullSn})

\* C20: a run works in the order process batch, commit, pause, next batch,
\* so every batch is committed before a record of the next batch is
\* processed; when the run fails while it works on batch k, the records that
\* batches 1..k-1 committed are in the violations table and the run returns
\* False.
C20_BatchesCommittedInOrder ==
    /\ [](EarlierBatchesCommitted /\ CommittedBatchesRemain)
    /\ [][BatchOrder]_vars

\* a run was aborted in its second batch after its first batch had committed
\* a record with a summons number and a record without one
C20_Witness ==
    /\ Aborted /\ i_ret = <<FALSE>>
    /\ BatchOf(i_idx) = 1
    /\ i_committed = {1, 2}
    /\ i_data[1].summons_number # NullSn /\ i_data[2].summons_number = NullSn
    /\ RowsOf(db, i_data[1].summons_number) # <<>>
    /\ NullRows(db) = NullRows(i_db_start) + 1

----------------------------------------------------------------------------
(* Lookups while an ingestion run is in progress                           *)

\* mutant of threaded: the server handles one request at a time
threaded_off == FALSE

\* app.run(host=..., port=..., debug=...) (main.py lines 15-19): no threaded
\* argument is passed and Flask's default serves every request on a thread
\* of its own
threaded == TRUE

\* a request is handled now: on its own thread, or when the route that runs
\* the ingestion (parking_routes.py line 252) is not in progress
Served == threaded \/ i_pc = "idle"

\* GET /parking-signs and GET /meter-rate reach the data loader
ServeSigns(lat, lon, radius) == Served /\ FindNearbySigns(lat, lon, radius)
ServeMeter(lat, lon) == Served /\ FindNearestMeterZone(lat, lon)

\* the next request for signs
NextSignCall ==
    /\ q_pc = "done"
    /\ q_pc' = "ready" /\ q_args' = NoArgs /\ q_result' = <<>>
    /\ UNCHANGED <<store_vars, load_vars, db_vars, run_vars, peer_vars, k_pc, k_call, k_result>>

\* the stores as startup loaded them: signs and meter zones around the
\* query point, or a signs table and no meter table
ServedStores ==
    { << ClusterFrame(MeterQuery, <<<<10, 10>>, <<2, 0>>>>),
         Frame(MeterCols, Renumbered(<<Zone(0, 600, 0), Zone(0, 5, 0)>>)) >>,
      << ClusterFrame(MeterQuery, <<<<0, 3>>>>), NoneDf >> }

\* feeds of full length that begin with a record that can be written
ServedFeeds ==
    { f \in Feeds : Len(f) = MaxFetch /\ f[1] = ViolationRecords[1] }

AnySignCall == ServeSigns(MeterQuery[1], MeterQuery[2], <<>>)

AnyMeterCall == ServeMeter(MeterQuery[1], MeterQuery[2])

\* the server is up, every earlier run failed in its fetch, and one more
\* run can start
InitServe ==
    /\ \E s \in ServedStores : parking_signs_df = s[1] /\ meter_zones_df = s[2]
    /\ app_phase = "serving"
    /\ LoadIdle
    /\ QueryIdle
    /\ feed \in ServedFeeds
    /\ db = <<>> /\ db_lock = "free" /\ lastw = NoWrites
    /\ i_runs = MaxRuns - 1 /\ i_prev_ret = ReturnOnFetchFailure
    /\ RunIdle

NextServe ==
    \/ NextIngest
    \/ AnySignCall
    \/ AnyMeterCall
    \/ NextSignCall
    \/ NextCall

SpecServe == InitServe /\ [][NextServe]_vars

\* an ingestion run is in a fetch, a record (its geocode call and insert),
\* a commit or the pause after a batch
InProgress == i_pc \in {"fetch", "record", "commit", "pause"}

\* the answers are computed from the stores
AnswersFromStores ==
    /\ q_pc = "done" =>
          q_result = find_nearby_parking_signs(parking_signs_df, q_args.lat,
                                               q_args.lon, q_args.radius)
    /\ (k_pc = "done" /\ k_call.op = "find_nearest_meter_zone") =>
          k_result = find_nearest_meter_zone(meter_zones_df, k_call.lat, k_call.lon)

----------------------------------------------------------------------------
(* Two concurrent calls of load_real_violations                            *)
(* POST /load-real-violations (parking_routes.py line 252) is handled on   *)
(* the thread of its request, so a second call can run while the first is  *)
(* in progress.  Each call opens its own connection (line 431) with the    *)
(* default busy timeout of 5 seconds.                                      *)

\* feeds whose elements are all JSON objects: no run is aborted
ConcurrentFeeds ==
    { f \in Feeds : \A j \in 1..Len(f) : f[j].kind = "dict" }

\* the second call has fetched the feed and opened its connection
\* (lines 420-438)
PeerStart ==
    /\ p_pc = "idle"
    /\ feed # <<>>
    /\ p_pc' = "record" /\ p_idx' = 1
    /\ UNCHANGED <<serve_vars, db_vars, run_vars, p_view, p_raised, p_executed,
                   p_committed>>

PeerLastOfBatch == p_idx % batch_size = 0 \/ p_idx = Len(feed)

\* lines 447-516 in the second call: its insert raises OperationalError
\* (database is locked) when the first call holds the write lock for longer
\* than the busy timeout, as it does while it geocodes the other records of
\* its batch, and the handler goes on with the next record; while the first
\* call is at its commit the insert waits for the lock
PeerRecord(coords) ==
    /\ p_pc = "record"
    /\ ~(db_lock = "held" /\ i_pc # "record")
    /\ LET violation == feed[p_idx]
           row == ViolationRow(violation.summons_number, violation.plate_id, coords)
           executes == violation.bindable /\ db_lock \in {"free", "peer"}
           table == IF db_lock = "peer" THEN p_view ELSE db
       IN  IF executes
           THEN /\ p_view' = Upsert(table, row)
                /\ db_lock' = "peer"
                /\ p_executed' = p_executed \cup {p_idx}
                /\ p_raised' = p_raised
           ELSE /\ p_raised' = p_raised \cup {p_idx}
                /\ UNCHANGED <<p_view, db_lock, p_executed>>
    /\ p_idx' = p_idx + 1
    /\ p_pc' = IF PeerLastOfBatch THEN "commit" ELSE "record"
    /\ UNCHANGED <<serve_vars, feed, db, lastw, run_vars, p_committed>>

\* line 519 in the second call
PeerCommit ==
    /\ p_pc = "commit"
    /\ IF db_lock = "peer"
       THEN /\ db' = p_view
            /\ lastw' = [sn \in SummonsNumbers |-> RowsOf(p_view, sn)]
            /\ db_lock' = "free"
            /\ p_committed' = p_executed
       ELSE UNCHANGED <<db, lastw, db_lock, p_committed>>
    /\ p_pc' = "pause"
    /\ UNCHANGED <<serve_vars, feed, run_vars, p_idx, p_view, p_raised, p_executed>>

\* lines 523-530 in the second call: the pause, then the next batch or the
\* end of the call
PeerPause ==
    /\ p_pc = "pause"
    /\ p_pc' = IF p_idx > Len(feed) THEN "done" ELSE "record"
    /\ UNCHANGED <<serve_vars, db_vars, run_vars, p_idx, p_view, p_raised,
                   p_executed, p_committed>>

\* the table is empty, every earlier run failed in its fetch, and two calls
\* can start
InitConcurrent ==
    /\ parking_signs_df = NoneDf
    /\ meter_zones_df = NoneDf
    /\ app_phase = "serving"
    /\ LoadIdle
    /\ QueryIdle
    /\ feed \in ConcurrentFeeds
    /\ db = <<>> /\ db_lock = "free" /\ lastw = NoWrites
    /\ i_runs = MaxRuns - 1 /\ i_prev_ret = ReturnOnFetchFailure
    /\ RunIdle

NextConcurrent ==
    \/ IngestStart
    \/ \E o \in FetchOutcomes : FetchViolations(o)
    \/ \E c \in GeocodeOutcomes : ProcessRecord(c)
    \/ CommitBatch
    \/ PauseAfterBatch
    \/ FinishRun
    \/ IngestReturn
    \/ PeerStart
    \/ \E c \in GeocodeOutcomes : PeerRecord(c)
    \/ PeerCommit
    \/ PeerPause

SpecConcurrent == InitConcurrent /\ [][NextConcurrent]_vars

----------------------------------------------------------------------------
(* Properties of concurrent runs *)

\* both calls have gone through the whole feed
BothDone == i_pc = "done" /\ i_fetch = "ok" /\ p_pc = "done"

\* the records of the feed that sqlite3 can bind
Bindable == {j \in 1..Len(feed) : feed[j].bindable}

\* the committed records that carry the summons number sn
CommittedWith(S, sn) == {j \in S : feed[j].summons_number = sn}

\* neither call has skipped a record it could have written
NoRecordLost ==
    /\ (i_pc = "done" /\ i_fetch = "ok") => Bindable \subseteq i_executed
    /\ p_pc = "done" => Bindable \subseteq p_executed

\* the table is what the committed upserts of both calls leave in one of
\* their serial orders: one row per summons number written, with the values
\* of the last record of one of the calls, and one row per record without a
\* summons number
SerialOutcome ==
    BothDone =>
        /\ \A sn \in SummonsNumbers :
              LET a == CommittedWith(i_committed, sn)
                  b == CommittedWith(p_committed, sn)
              IN  IF a \cup b = {} THEN RowsOf(db, sn) = <<>>
                  ELSE /\ Len(RowsOf(db, sn)) = 1
                       /\ \E S \in {a, b} \ {{}} :
                             RowsOf(db, sn)[1].plate_id
                                 = feed[CHOOSE j \in S : \A k \in S : k <= j].plate_id
        /\ Len(RowsOf(db, NullSn))
             = Cardinality(CommittedWith(i_committed, NullSn))
               + Cardinality(CommittedWith(p_committed, NullSn))

\* C18 as stated: when two runs execute concurrently, neither loses a record
\* because the other holds the write transaction, and the final table is the
\* result of the successful upserts of both runs in some sequential order.
C18_ConcurrentRunsSerialized == NoRecordLost /\ SerialOutcome

----------------------------------------------------------------------------
(* Batches, return value and counters of a run                             *)

\* the records the run has gone through: each raised or was written
Processed == i_raised \cup i_executed

\* C21: the batches of a run partition the fetched records: a batch ends
\* after every batch_size records and after the last one, so n records make
\* ceil(n / batch_size) batches of at most batch_size records, and every
\* fetched record is processed exactly once, in fetch order.
C21_BatchesPartitionRecords ==
    /\ i_pc \in {"record", "commit", "pause", "finish"} =>
          /\ Processed = 1..(i_idx - 1)
          /\ i_raised \cap i_executed = {}
    /\ i_pc \in {"commit", "pause"} =>
          (i_idx - 1) % batch_size = 0 \/ i_idx - 1 = Len(i_data)
    /\ i_pc = "record" => BatchOf(i_idx) <= (Len(i_data) - 1) \div batch_size
    /\ (i_pc = "done" /\ i_fetch = "ok") =>
          /\ Processed = 1..Len(i_data)
          /\ i_raised \cap i_executed = {}

\* C22: a run whose fetch returned at least one record returns True however
\* many of its records fail, also when every record fails and nothing is
\* persisted.
C22_ReturnsTrueDespiteFailures ==
    (i_pc = "done" /\ i_fetch = "ok") => i_ret = <<TRUE>>

\* C29: at every point of a run the count of geocoded records is at most
\* the count of processed records.
C29_GeocodedAtMostProcessed ==
    geocoded_count <= processed_count

----------------------------------------------------------------------------
(* Derived fields of a persisted record (lines 472-480, 562-606)           *)
(* A JSON null is the string "None", as Python formats it; an absent key   *)
(* is read with the default ''.                                            *)

\* _get_violation_code_descriptions (lines 562-584)
violation_codes ==
    ("14" :> "NO STANDING-DAY/TIME LIMITS") @@ ("16" :> "NO STANDING-BUS STOP")
    @@ ("17" :> "NO PARKING-DAY/TIME LIMITS") @@ ("19" :> "NO PARKING-BUS STOP")
    @@ ("20" :> "NO PARKING-DAY/TIME LIMITS") @@ ("21" :> "NO PARKING-STREET CLEANING")
    @@ ("34" :> "EXPIRED MUNI METER") @@ ("35" :> "FAIL TO DSPLY MUNI METER RECPT")
    @@ ("37" :> "EXPIRED METER") @@ ("38" :> "OVERTIME STANDING")
    @@ ("40" :> "FIRE HYDRANT") @@ ("46" :> "DOUBLE PARKING")
    @@ ("47" :> "DOUBLE PARKING") @@ ("50" :> "PHTO SCHOOL ZN SPEED VIOLATION")
    @@ ("67" :> "BLOCKING PEDESTRIAN RAMP") @@ ("69" :> "FAILURE TO STOP AT RED LIGHT")
    @@ ("71" :> "NO PARKING WHERE PROHIBITED") @@ ("78" :> "NO PARKING-NIGHTTIME")

\* fine_mapping of _get_fine_amount (lines 589-594)
fine_mapping ==
    ("14" :> 115) @@ ("16" :> 115) @@ ("17" :> 65) @@ ("19" :> 115) @@ ("20" :> 65)
    @@ ("21" :> 65) @@ ("34" :> 35) @@ ("35" :> 35) @@ ("37" :> 25) @@ ("38" :> 35)
    @@ ("40" :> 115) @@ ("46" :> 115) @@ ("47" :> 115) @@ ("50" :> 50) @@ ("67" :> 165)
    @@ ("69" :> 50) @@ ("71" :> 65) @@ ("78" :> 35)

\* county_mapping of _get_borough_from_county (lines 599-605)
county_mapping ==
    ("NY" :> "MANHATTAN") @@ ("BX" :> "BRONX") @@ ("BK" :> "BROOKLYN")
    @@ ("QN" :> "QUEENS") @@ ("ST" :> "STATEN ISLAND")

\* line 474: violation_codes.get(violation_code, f"Violation Code {violation_code}")
violation_description(code) ==
    IF code \in DOMAIN violation_codes THEN violation_codes[code]
    ELSE "Violation Code " \o code

\* mutant of get_fine_amount: no default, an unmapped code has no fine
get_fine_amount_no_default(code) ==
    IF code \in DOMAIN fine_mapping THEN fine_mapping[code] ELSE 0

\* line 595: fine_mapping.get(violation_code, 50)
get_fine_amount(code) ==
    IF code \in DOMAIN fine_mapping THEN fine_mapping[code] ELSE 50

\* line 606: county_mapping.get(county_code, 'UNKNOWN')
get_borough_from_county(county) ==
    IF county \in DOMAIN county_mapping THEN county_mapping[county] ELSE "UNKNOWN"

\* violation.get('violation_code', '') and violation.get('violation_county', '')
\* of the records: the mapped values, unmapped ones, null, and a missing key
ViolationCodes == DOMAIN violation_codes \cup {"99", "5", "None", ""}
CountyCodes == DOMAIN county_mapping \cup {"K", "Q", "None", ""}

\* lines 472-512: the derived values bound to the insert of a record
DeriveFields(code, county) ==
    /\ k_pc = "ready"
    /\ k_call' = [op |-> "insert", violation_code |-> code, violation_county |-> county]
    /\ k_result' = << [violation_description |-> violation_description(code),
                       fine_amount |-> get_fine_amount(code),
                       borough |-> get_borough_from_county(county)] >>
    /\ k_pc' = "done"
    /\ UNCHANGED <<store_vars, load_vars, db_vars, run_vars, peer_vars, q_pc, q_args, q_result>>

InitDerive ==
    /\ parking_signs_df = NoneDf
    /\ meter_zones_df = NoneDf
    /\ app_phase = "serving"
    /\ LoadIdle
    /\ QueryIdle
    /\ DbIdle

NextDerive ==
    \/ \E code \in ViolationCodes, county \in CountyCodes : DeriveFields(code, county)
    \/ NextCall

SpecDerive == InitDerive /\ [][NextDerive]_vars

Inserted == k_pc = "done" /\ k_call.op = "insert"

\* C26: the description and the fine of a persisted record are the entries
\* of the fixed tables for its violation code, or "Violation Code <code>"
\* and 50 when the code is in neither table (the two tables map the same
\* codes); its borough is the entry for its county code, or "UNKNOWN" when
\* the county code is unmapped or absent.
C26_DerivedFromFixedTables ==
    /\ DOMAIN violation_codes = DOMAIN fine_mapping
    /\ Inserted =>
        LET code == k_call.violation_code
            county == k_call.violation_county
            row == k_result[1]
        IN  /\ code \in DOMAIN violation_codes =>
                  /\ row.violation_description = violation_codes[code]
                  /\ row.fine_amount = fine_mapping[code]
            /\ code \notin DOMAIN violation_codes =>
                  /\ row.violation_description = "Violation Code " \o code
                  /\ row.fine_amount = 50
            /\ county \in DOMAIN county_mapping => row.borough = county_mapping[county]
            /\ county \notin DOMAIN county_mapping => row.borough = "UNKNOWN"

\* a record with an unmapped violation code and no county code was bound
C26_Witness ==
    /\ Inserted
    /\ k_call.violation_code = "99" /\ k_call.violation_county = ""
    /\ k_result[1].violation_description = "Violation Code 99"
    /\ k_result[1].fine_amount = 50
    /\ k_result[1].borough = "UNKNOWN"

----------------------------------------------------------------------------
(* Records the geocoder misses, and the lookup over the ingested table     *)

\* the rows as the table holds them: the records of the feed carry no
\* issue_date, so the column is NULL
StoredRows(table) ==
    [i \in 1..Len(table) |-> table[i] @@ [issue_date |-> NullDate]]

\* the point the geocoder returns on a hit, and a point 2 m south of it
StoredQueryPoints == { <<4075890, -7398510>>, <<4075888, -7398510>> }

\* find_nearby_violations over the committed table, without date filters
FindNearbyStored(lat, lon, radius_meters) ==
    /\ k_pc = "ready"
    /\ InBounds(lat, lon)
    /\ k_call' = [op |-> "find_nearby_violations", lat |-> lat, lon |-> lon,
                  radius_meters |-> radius_meters, start_date |-> <<>>,
                  end_date |-> <<>>, limit |-> 100]
    /\ k_result' = find_nearby_violations(StoredRows(db), lat, lon, radius_meters,
                                          <<>>, <<>>, 100)
    /\ k_pc' = "done"
    /\ UNCHANGED <<store_vars, load_vars, db_vars, run_vars, peer_vars, q_pc, q_args, q_result>>

\* the server is up, every earlier run failed in its fetch, and one more
\* run can start
InitMiss ==
    /\ parking_signs_df = NoneDf
    /\ meter_zones_df = NoneDf
    /\ app_phase = "serving"
    /\ LoadIdle
    /\ QueryIdle
    /\ feed \in Feeds
    /\ db = <<>> /\ db_lock = "free" /\ lastw = NoWrites
    /\ i_runs = MaxRuns - 1 /\ i_prev_ret = ReturnOnFetchFailure
    /\ RunIdle

NextMiss ==
    \/ NextIngest
    \/ \E p \in StoredQueryPoints : FindNearbyStored(p[1], p[2], 1000)
    \/ NextCall

SpecMiss == InitMiss /\ [][NextMiss]_vars

\* this step processes the record at i_idx and the geocoder misses it
MissStep ==
    /\ i_pc = "record" /\ i_idx' = i_idx + 1
    /\ i_idx \notin i_hits'

\* the insert of the record at i_idx can succeed
Insertable == i_data[i_idx].bindable /\ db_lock \notin {"leaked", "peer"}

\* a missed record is written with NULL coordinates and counted as
\* processed, not as geocoded
MissKeepsRecord ==
    MissStep =>
        /\ geocoded_count' = geocoded_count
        /\ Insertable =>
              /\ i_idx \in i_executed'
              /\ processed_count' = processed_count + 1
              /\ i_view'[Len(i_view')]
                    = ViolationRow(i_data[i_idx].summons_number,
                                   i_data[i_idx].plate_id, <<>>)

\* the lookup returns no row without coordinates
NoNullPointReturned ==
    NearbyCalled =>
        \A n \in 1..Len(k_result) : k_result[n].coords # <<>>

\* C23: a record the geocoder misses is not dropped: it is upserted with
\* NULL latitude and longitude, it is counted as processed and not as
\* geocoded, and find_nearby_violations never returns it.
C23_SoftMissKeepsRecord ==
    /\ [][MissKeepsRecord]_vars
    /\ []NoNullPointReturned

\* the table holds a committed row without coordinates and a row at the
\* geocoded point, and a lookup around that point returned the second alone
C23_Witness ==
    /\ NearbyCalled
    /\ \E i \in 1..Len(db) : db[i].coords = <<>>
    /\ Len(k_result) = 1
    /\ Len(db) >= 2
    /\ i_pc = "done" /\ i_executed \ i_hits # {}
    /\ processed_count = Cardinality(i_executed)
    /\ geocoded_count < processed_count

----------------------------------------------------------------------------
(* load_meter_zones called on a loader that holds a meter table            *)

\* what load_meter_zones returns (lines 230-237): True for a response with
\* records, False for an empty one, a non-2xx status or a request that raised
meter_load_returns(outcome, data) == outcome = "200" /\ Len(data.rows) # 0

\* meter_rates.total_count of get_data_status (lines 891-892)
meter_total_count(df) == IF NoneOrEmpty(df) THEN 0 ELSE DfLen(df)

\* a call of DataLoader.load_meter_zones: line 196 assigns the response to
\* the attribute before line 198 looks whether it is empty
CallLoadMeterZones(outcome, data) ==
    /\ k_pc = "ready"
    /\ k_call' = [op |-> "load_meter_zones", before |-> meter_zones_df]
    /\ meter_zones_df' = IF outcome = "200" THEN load_meter_zones(data)
                         ELSE meter_zones_df
    /\ k_result' = <<meter_load_returns(outcome, data)>>
    /\ k_pc' = "done"
    /\ UNCHANGED <<parking_signs_df, load_vars, db_vars, run_vars, peer_vars,
                   q_pc, q_args, q_result>>

InitMeterLoad ==
    /\ parking_signs_df = NoneDf
    /\ meter_zones_df \in MeterTables
    /\ app_phase = "serving"
    /\ LoadIdle
    /\ QueryIdle
    /\ DbIdle

NextMeterLoad ==
    \/ \E o \in {"raise", "200", "500"}, d \in MeterResponses : CallLoadMeterZones(o, d)
    \/ NextCall

SpecMeterLoad == InitMeterLoad /\ [][NextMeterLoad]_vars

MeterLoadFailed ==
    k_pc = "done" /\ k_call.op = "load_meter_zones" /\ k_result = <<FALSE>>

\* C28 as stated: when load_meter_zones has returned False, the meter table
\* that was loaded before the call is the one find_nearest_meter_zone serves
\* and get_data_status counts.
C28_FailedLoadKeepsSnapshot ==
    MeterLoadFailed =>
        /\ find_nearest_meter_zone(meter_zones_df, MeterQuery[1], MeterQuery[2])
              = find_nearest_meter_zone(k_call.before, MeterQuery[1], MeterQuery[2])
        /\ meter_total_count(meter_zones_df) = meter_total_count(k_call.before)

----------------------------------------------------------------------------
(* The radius of find_nearest_meter_zone                                   *)

\* row i of the meter table has numeric coordinates within the 500 m of the
\* query point
WithinMeterRadius(i) ==
    LET row == Rows(meter_zones_df)[i]
    IN  /\ IsNum(row.lat) /\ IsNum(row.lon)
        /\ MeterDist(i) <= MeterRadius * 1000

\* C27: a zone returned by find_nearest_meter_zone lies within 500 m of the
\* query point, and the call returns None when no zone of the table does.
C27_ZoneWithinRadius ==
    MeterCalled =>
        /\ k_result # <<>> => k_result[1].mm <= MeterRadius * 1000
        /\ ( \/ NoneOrEmpty(meter_zones_df)
             \/ \A i \in 1..DfLen(meter_zones_df) : ~WithinMeterRadius(i) )
           => k_result = <<>>

----------------------------------------------------------------------------
(* The requests of one signs reload (data_loader.py lines 105-115) *)

\* a step of load_parking_signs that received an answer to a GET
RequestStep == l_pc \in {"request", "retry"} /\ l_requests' = l_requests + 1

\* the second GET (line 112) follows the first GET of the same reload only
RetryFollowsFirst ==
    (l_pc' = "retry" /\ l_pc # "retry") => (l_pc = "request" /\ l_requests' = 1)

\* the answer to the retry ends the requests of the reload
RetryNotRepeated ==
    (l_pc = "retry" /\ RequestStep) => l_pc' \in {"parse", "sample"}

\* the last answer had a status outside 200..299
LastNot2xx ==
    /\ RequestStep
    /\ l_pc' # "retry"
    /\ l_path' \in {"status", "redirect"}

\* C24: a reload sends at most two GETs, the second only after the first, it
\* is not repeated, and a last answer with a status outside 200..299 sends
\* the load to _create_sample_parking_signs.
C24_AtMostTwoRequests ==
    /\ [](l_requests <= 2)
    /\ [][RetryFollowsFirst /\ RetryNotRepeated]_vars
    /\ [][LastNot2xx => l_pc' = "sample"]_vars

\* the parts of C24 about the number of requests and about the 4xx and 5xx
\* answers
RequestsBounded ==
    /\ [](l_requests <= 2)
    /\ [][RetryFollowsFirst /\ RetryNotRepeated]_vars
    /\ [][(LastNot2xx /\ l_path' = "status") => l_pc' = "sample"]_vars

----------------------------------------------------------------------------
(* What one reload leaves in the signs store (data_loader.py lines 117-183) *)

\* lines 123-166 applied to the table of one response: the table the load
\* leaves when it does not fall back to the synthetic one
FetchedTable(data, how) ==
    LET xy == CoerceColumn(CoerceColumn(data, "sign_x_coord"), "sign_y_coord")
        ll == CoerceColumn(CoerceColumn(data, "latitude"), "longitude")
        df == IF XYCols \subseteq data.cols
              THEN convert_state_plane_to_latlon(xy, how)
              ELSE ll
    IN  IF LLCols \subseteq df.cols THEN bounds_filter(dropna(df)) ELSE df

\* the response has records and a pair of coordinate columns (lines 118-147)
Usable(data) ==
    /\ data.kind = "frame"
    /\ Len(data.rows) > 0
    /\ (XYCols \subseteq data.cols \/ LLCols \subseteq data.cols)

\* the tables a reload can leave, given the response it received
ProducedBy(data) ==
    { SampleDf(seed) : seed \in Seeds }
    \cup (IF Usable(data)
          THEN { FetchedTable(data, how) : how \in PyprojOutcomes }
          ELSE {})

\* load_parking_signs is at one of its return statements
LoadComplete == l_pc = "return"

\* the route's check after the load (parking_routes.py lines 345-348) keeps
\* the table or puts the synthetic one in its place
RouteKeepsOrSamples ==
    l_pc = "route_check" =>
        \/ parking_signs_df' = parking_signs_df
        \/ parking_signs_df' \in { SampleDf(seed) : seed \in Seeds }

\* C25: when load_parking_signs returns, the signs table is the synthetic
\* table or the filtered table of the response of this reload; it is a
\* function of that response alone, whatever the table held before.
C25_ReloadReplaces ==
    /\ [](LoadComplete => parking_signs_df \in ProducedBy(l_data))
    /\ [][RouteKeepsOrSamples]_vars

\* a reload over a fetched table has returned a fetched table that lacks a
\* row of the previous one
C25_Witness ==
    /\ LoadComplete
    /\ l_prev.kind = "frame" /\ parking_signs_df.kind = "frame"
    /\ DfLen(parking_signs_df) > 0
    /\ \E i \in 1..DfLen(l_prev) :
          \A j \in 1..DfLen(parking_signs_df) :
              Rows(parking_signs_df)[j] # Rows(l_prev)[i]

----------------------------------------------------------------------------
(* load_sample_violations (data_loader.py lines 608-669), called by the    *)
(* route load_sample_data (parking_routes.py lines 283-323)                *)

\* sample_size of a call (the route admits 100..10000), scaled down
MaxSample == 2

\* the key f'SAMPLE{i:06d}' of row i: no key of the violations feed
SampleBase == 100
SampleKey(i) == SampleBase + i

\* random.choice and random.uniform of one call (lines 638-647)
SamplePicks == {1, 2}

\* the row that line 648 inserts for index i: the payload column carries
\* the pick, the coordinates lie inside the box of lines 646-647
SampleViolation(i, pick) ==
    ViolationRow(SampleKey(i), pick,
                 IF pick = 1 THEN <<4075890, -7398510>> ELSE <<LatMin, LonMin>>)

\* INSERT OR IGNORE under the UNIQUE constraint of summons_number: the row
\* is added unless a row holds the same key
InsertOrIgnore(table, row) ==
    IF RowsOf(table, row.summons_number) # <<>> THEN table ELSE Append(table, row)

RECURSIVE InsertSamples(_, _, _, _)
\* the loop of lines 637-663 from index i on
InsertSamples(table, i, sample_size, pick) ==
    IF i >= sample_size THEN table
    ELSE InsertSamples(InsertOrIgnore(table, SampleViolation(i, pick)),
                       i + 1, sample_size, pick)

\* load_sample_violations(sample_size) on a connection of its own.  The
\* first INSERT takes the write lock; while the transaction of an ingestion
\* batch is open, or an aborted run has left its connection open, it raises
\* OperationalError (database is locked) after the busy timeout, and the
\* handler of lines 668-669 only logs: nothing is inserted.  Otherwise the
\* rows are inserted and committed (line 663).  A call that meets an
\* ingestion at its commit waits for it.
LoadSampleViolations(sample_size, pick) ==
    /\ k_pc = "ready"
    /\ ~(db_lock = "held" /\ i_pc # "record")
    /\ k_call' = [op |-> "load_sample_violations", sample_size |-> sample_size,
                  before |-> db]
    /\ IF db_lock = "free"
       THEN /\ db' = InsertSamples(db, 0, sample_size, pick)
            /\ k_result' = <<"committed">>
       ELSE /\ db' = db
            /\ k_result' = <<"raised">>
    /\ k_pc' = "done"
    /\ UNCHANGED <<store_vars, load_vars, feed, db_lock, lastw, run_vars, peer_vars,
                   q_pc, q_args, q_result>>

\* the server is up, every earlier run failed in its fetch, and one more
\* run can start
InitSample ==
    /\ parking_signs_df = NoneDf
    /\ meter_zones_df = NoneDf
    /\ app_phase = "serving"
    /\ LoadIdle
    /\ QueryIdle
    /\ feed \in Feeds
    /\ db = <<>> /\ db_lock = "free" /\ lastw = NoWrites
    /\ i_runs = MaxRuns - 1 /\ i_prev_ret = ReturnOnFetchFailure
    /\ RunIdle

NextSample ==
    \/ NextIngest
    \/ \E n \in 1..MaxSample, pick \in SamplePicks : LoadSampleViolations(n, pick)
    \/ NextCall

SpecSample == InitSample /\ [][NextSample]_vars

\* the step is a call of load_sample_violations
SampleStep == k_pc = "ready" /\ k_call'.op = "load_sample_violations"

\* the rows the table held are still there, unchanged and in their places
KeepsRows == Len(db') >= Len(db) /\ SubSeq(db', 1, Len(db)) = db

\* the indices below sample_size whose key the table lacks
Missing(table, sample_size) ==
    {i \in 0..(sample_size - 1) : RowsOf(table, SampleKey(i)) = <<>>}

\* the call has added one row for each key that was missing, and no other
AddsMissing ==
    LET n == k_call'.sample_size
    IN  /\ Len(db') = Len(db) + Cardinality(Missing(db, n))
        /\ Missing(db', n) = {}

\* C30: a call of load_sample_violations(n) leaves every row of the table
\* unchanged and adds one row for each key SAMPLE000000 .. SAMPLE(n-1) that
\* was missing, so that a second call with the same n adds nothing.
C30_SampleLoadOnlyAdds == [][SampleStep => (KeepsRows /\ AddsMissing)]_vars

\* the part of C30 that holds: no call changes or removes a row, and a call
\* that finds the database unlocked adds exactly the missing keys
SampleLoadKeepsRows ==
    [][SampleStep => (KeepsRows /\ (db_lock = "free" => AddsMissing))]_vars

====
